---- MODULE Spec2Model ----
(***************************************************************************)
(* Verification model of DSLGen (Krokki-ki/DSLGen).                        *)
(*                                                                         *)
(* Text is modelled as a sequence of one-character strings, a text file as *)
(* the sequence of its lines (each line without its terminating "\n").     *)
(*                                                                         *)
(* Part I   sql_generator.py : preparation of the value file and the       *)
(*          byte-budget group loop of main().                              *)
(* Part II  traceid_processor.py : deduplication, first-proc file,         *)
(*          count-budget chunking and wrapping of the group files.         *)
(* Part III summator.py : classification of the two workbooks, choice of   *)
(*          the key, build_map, full_outer_join, the result file and its   *)
(*          sort by groups.  A cell is a text or None.                     *)
(* Part IV  csv_processor.py : the four searches of                        *)
(*          extract_four_filters_from_line and the rows main() collects.   *)
(* Part V   csv_processor_EQ.py : the six searches of                      *)
(*          extract_row_from_text and the rows main() collects.            *)
(* Part VI  main_menu.py : the loop of the menu; sql_generator and         *)
(*          summator called again on the files an earlier run left.        *)
(*          The regular expressions are matched character by character.    *)
(*                                                                         *)
(* sql_generator.py fixes MAX_TOTAL = 800 and RESERVED = 300.  The model   *)
(* keeps the two limits as state chosen in Init from small sets, so that   *)
(* short strings reach every branch of the loop (item fits, item does not  *)
(* fit, assembled content over MAX_TOTAL).                                 *)
(***************************************************************************)
EXTENDS Integers, Sequences, FiniteSets, TLC

\* ------------------------------------------------------------------------
\* Bounds of the model
\* ------------------------------------------------------------------------
\* largest number of lines of the source file of sql_generator
MaxItems == 3
\* cap on count_sql (the loop of sql_generator.main can run forever)
MaxFiles == 5

\* ------------------------------------------------------------------------
\* Text helpers (Python str methods used by the sources)
\* ------------------------------------------------------------------------
\* str.isspace for one character
IsSpace(c) == c \in {" ", "\t", "\n", "\r"}

RECURSIVE lstrip(_)
\* str.lstrip()
lstrip(s) ==
    IF s # <<>> /\ IsSpace(Head(s)) THEN lstrip(Tail(s)) ELSE s

RECURSIVE rstrip(_)
\* str.rstrip()
rstrip(s) ==
    IF s # <<>> /\ IsSpace(s[Len(s)]) THEN rstrip(SubSeq(s, 1, Len(s) - 1)) ELSE s

\* str.strip()
strip(s) == rstrip(lstrip(s))

\* s.endswith(t)
endswith(s, t) ==
    /\ Len(s) >= Len(t)
    /\ SubSeq(s, Len(s) - Len(t) + 1, Len(s)) = t

\* s.startswith(t)
startswith(s, t) ==
    /\ Len(s) >= Len(t)
    /\ SubSeq(s, 1, Len(t)) = t

\* the elements of a sequence
Range(q) == { q[i] : i \in 1..Len(q) }

\* the separator of ", ".join(...)
ItemSeparator == <<",", " ">>

RECURSIVE JoinSep(_, _)
\* sep.join(items)
JoinSep(items, sep) ==
    IF items = <<>> THEN <<>>
    ELSE IF Len(items) = 1 THEN items[1]
    ELSE items[1] \o sep \o JoinSep(Tail(items), sep)

\* a mutant of Join: the items joined by "," alone
JoinCommaOnly(items) == JoinSep(items, <<",">>)

\* ", ".join(items)
Join(items) == JoinSep(items, ItemSeparator)

\* ========================================================================
\* Part I: sql_generator.py (state)
\* ========================================================================
VARIABLES
    src_file,        \* lines of <name>.txt
    backup_file,     \* lines of original<name>.txt, <<>> while not written
    raw_items,       \* the list raw_items of main()
    sql_query_pref,  \* the prefix built from the template
    sql_query_post,  \* the postfix
    MAX_TOTAL,       \* limit on the length of one file
    RESERVED,        \* characters kept for prefix and postfix
    count_sql,       \* number of files written
    used,            \* number of items of raw_items consumed
    out_files,       \* out_files[i] = content of <name>-<i>.txt
    groups,          \* groups[i] = indices (into raw_items) of current_items
                     \*   when file i was written
    popped,          \* popped[i] = index removed by current_items.pop()
                     \*   before file i was written, 0 when none
    sql_pc           \* position in main(): "start", "loop", "done"

sql_vars == <<src_file, backup_file, raw_items, sql_query_pref, sql_query_post,
              MAX_TOTAL, RESERVED, count_sql, used, out_files, groups, popped,
              sql_pc>>

\* ========================================================================
\* Part II: traceid_processor.py (state)
\* ========================================================================
VARIABLES
    seen,            \* the set seen of unique_trace_ids_with_progress
    duplicates,      \* its counter duplicates
    idx,             \* its counter idx: lines read so far
    consumed,        \* the raw lines read so far, in order (history)
    unique_ids,      \* the tuple returned by unique_trace_ids_with_progress
    first_proc,      \* lines of <name>firstProc.txt
    group_files,     \* group_files[i] = lines of output/dsl_group-<i>.txt
    groupsCount,     \* value returned by chunk_first_proc_into_groups
    wrap_i,          \* number of iterations done by last_process_all_groups
    wrapped,         \* wrapped[i] = how often wrap_group_file ran on file i
    trace_pc         \* position in the trace id code

trace_vars == <<seen, duplicates, idx, consumed, unique_ids, first_proc,
                group_files, groupsCount, wrap_i, wrapped, trace_pc>>

\* traceid_processor is not running
TraceIdle ==
    /\ seen = {}
    /\ duplicates = 0
    /\ idx = 0
    /\ consumed = <<>>
    /\ unique_ids = <<>>
    /\ first_proc = <<>>
    /\ group_files = <<>>
    /\ groupsCount = 0
    /\ wrap_i = 0
    /\ wrapped = <<>>
    /\ trace_pc = "idle"

\* sql_generator is not running
SqlIdle ==
    /\ src_file = <<>>
    /\ backup_file = <<>>
    /\ raw_items = <<>>
    /\ sql_query_pref = <<>>
    /\ sql_query_post = <<>>
    /\ MAX_TOTAL = 0
    /\ RESERVED = 0
    /\ count_sql = 0
    /\ used = 0
    /\ out_files = <<>>
    /\ groups = <<>>
    /\ popped = <<>>
    /\ sql_pc = "idle"

\* ========================================================================
\* Part II: normalize_trace_id on one token (state)
\* ========================================================================
VARIABLES
    token,           \* the text given to normalize_trace_id
    tid,             \* normalize_trace_id(token), the stored key
    tid_norm,        \* the key after the second call made by to_group_dsl
    norm_pc          \* "idle", "token", "normalized", "again"

norm_vars == <<token, tid, tid_norm, norm_pc>>

\* no token is being normalized
NormIdle ==
    /\ token = <<>>
    /\ tid = <<>>
    /\ tid_norm = <<>>
    /\ norm_pc = "idle"

\* ========================================================================
\* Part III: summator.py (state)
\* ========================================================================
VARIABLES
    xlsx_files,      \* the files of the directory in name order, each
                     \*   [headers |-> cells of row 1, rows |-> other rows]
    roles,           \* the dict roles of main(): label -> position of the
                     \*   file in xlsx_files
    key_name,        \* key_name returned by ask_key ("" before the answer)
    kib_key,         \* kib_key returned by ask_key
    eq_key,          \* eq_key returned by ask_key
    eq_map,          \* the dict built from the EQ rows
    kib_map,         \* the dict built from the Kibana rows
    joined_keys,     \* the keys in the order full_outer_join visited them
                     \*   (history)
    joined_rows,     \* the list returned by full_outer_join
    out_file,        \* All_join_data-<key_name>.xlsx, NoFile until written
    grouped,         \* the dict grouped of sort_joined_file
    join_msg,        \* what main() printed when it gave up ("" when nothing)
    join_pc          \* position in main()

join_vars == <<xlsx_files, roles, key_name, kib_key, eq_key, eq_map, kib_map,
               joined_keys, joined_rows, out_file, grouped, join_msg, join_pc>>

\* a file that does not exist
NoFile == [headers |-> <<>>, rows |-> <<>>, exists |-> FALSE]

\* an empty dict
EmptyDict == <<>>

\* summator is not running
JoinIdle ==
    /\ xlsx_files = <<>>
    /\ roles = EmptyDict
    /\ key_name = ""
    /\ kib_key = ""
    /\ eq_key = ""
    /\ eq_map = EmptyDict
    /\ kib_map = EmptyDict
    /\ joined_keys = <<>>
    /\ joined_rows = <<>>
    /\ out_file = NoFile
    /\ grouped = EmptyDict
    /\ join_msg = ""
    /\ join_pc = "idle"

\* ========================================================================
\* Part IV: csv_processor.py (state)
\* ========================================================================
VARIABLES
    csv_line,        \* the line of the CSV file read last
    pairs,           \* what extract_four_filters_from_line returned for it
    rows_to_add,     \* the list rows_to_add of main()
    csv_i,           \* number of lines read
    csv_pc           \* "idle", "reading", "done"

csv_vars == <<csv_line, pairs, rows_to_add, csv_i, csv_pc>>

\* csv_processor is not running
CsvIdle ==
    /\ csv_line = <<>>
    /\ pairs = <<>>
    /\ rows_to_add = <<>>
    /\ csv_i = 0
    /\ csv_pc = "idle"

\* ========================================================================
\* Part V: csv_processor_EQ.py (state)
\* ========================================================================
VARIABLES
    eq_text,         \* the line of the CSV file read last
    rows_batch,      \* the list rows_batch of main()
    eqx_i,           \* number of lines read
    eqx_pc           \* "idle", "reading", "done"

eqx_vars == <<eq_text, rows_batch, eqx_i, eqx_pc>>

\* csv_processor_EQ is not running
EqxIdle ==
    /\ eq_text = <<>>
    /\ rows_batch = <<>>
    /\ eqx_i = 0
    /\ eqx_pc = "idle"

\* ========================================================================
\* Part VI: main_menu.py and repeated runs (state)
\* ========================================================================
VARIABLES
    menu_pc,         \* "idle", "prompt", "step", "exited"
    menu_choice,     \* choice of main(): the answer read_choice() returned
                     \*   last
    chosen,          \* the answers given so far, in order (history)
    exit_status,     \* the argument of sys.exit, or "exception"; "" while
                     \*   the program runs
    sql_runs,        \* number of runs of sql_generator.main completed before
                     \*   the current one
    text_before,     \* the source file as it was before the first run
                     \*   (history)
    items_before,    \* raw_items of the previous run (history)
    join_runs,       \* number of runs of summator.main completed before
                     \*   the current one
    out_before       \* the output file as the previous run left it (history)

menu_vars == <<menu_pc, menu_choice, chosen, exit_status>>

rerun_vars == <<sql_runs, text_before, items_before, join_runs, out_before>>

\* no part of the program has run before
RerunIdle ==
    /\ sql_runs = 0
    /\ text_before = <<>>
    /\ items_before = <<>>
    /\ join_runs = 0
    /\ out_before = NoFile

\* the menu is not running
MenuIdle ==
    /\ menu_pc = "idle"
    /\ menu_choice = <<>>
    /\ chosen = <<>>
    /\ exit_status = ""

\* no part of the program modelled after summator is running
RestIdle == CsvIdle /\ EqxIdle /\ MenuIdle

\* the state of csv_processor, csv_processor_EQ and the menu
rest_vars == <<csv_vars, eqx_vars, menu_vars>>

\* the state of the parts of the program other than the current run of
\* sql_generator
not_sql_vars == <<trace_vars, norm_vars, join_vars, rest_vars, rerun_vars>>

\* the state of the parts of the program other than traceid_processor
not_trace_vars == <<sql_vars, norm_vars, join_vars, rest_vars, rerun_vars>>

\* the state of the parts of the program other than the current run of
\* summator
not_join_vars == <<sql_vars, trace_vars, norm_vars, rest_vars, rerun_vars>>

\* the state of the parts of the program other than normalize_trace_id
not_norm_vars == <<sql_vars, trace_vars, join_vars, rest_vars, rerun_vars>>

\* the state of the parts of the program other than csv_processor
not_csv_vars == <<sql_vars, trace_vars, norm_vars, join_vars, eqx_vars,
                  menu_vars, rerun_vars>>

\* the state of the parts of the program other than csv_processor_EQ
not_eqx_vars == <<sql_vars, trace_vars, norm_vars, join_vars, csv_vars,
                  menu_vars, rerun_vars>>

\* the state of the parts of the program other than the menu
not_menu_vars == <<sql_vars, trace_vars, norm_vars, join_vars, csv_vars,
                   eqx_vars, rerun_vars>>

\* ========================================================================
\* Part I: sql_generator.py (operations)
\* ========================================================================
\* MAX_BODY = MAX_TOTAL - RESERVED
MAX_BODY == MAX_TOTAL - RESERVED

\* build_sql_postfix(): ")\n;\n"
build_sql_postfix == <<")", "\n", ";", "\n">>

RECURSIVE double_quotes(_)
\* val.replace("'", "''")
double_quotes(val) ==
    IF val = <<>> THEN <<>>
    ELSE (IF Head(val) = "'" THEN <<"'", "'">> ELSE <<Head(val)>>)
         \o double_quotes(Tail(val))

\* quote_value(val)
quote_value(val) == <<"'">> \o double_quotes(val) \o <<"'">>

RECURSIVE read_values(_)
\* read_values(src_file): the stripped non-empty lines
read_values(lines) ==
    IF lines = <<>> THEN <<>>
    ELSE LET s == strip(Head(lines))
         IN  (IF s # <<>> THEN <<s>> ELSE <<>>) \o read_values(Tail(lines))

\* prepared_lines: quote_value(v) + ",\n" for every value (one line each)
prepared_lines(values) ==
    [k \in 1..Len(values) |-> quote_value(values[k]) \o <<",">>]

RECURSIVE read_raw_items(_)
\* the loop that fills raw_items from the prepared file
read_raw_items(lines) ==
    IF lines = <<>> THEN <<>>
    ELSE LET s == strip(Head(lines))
             t == IF endswith(s, <<",">>)
                  THEN rstrip(SubSeq(s, 1, Len(s) - 1)) ELSE s
         IN  (IF s # <<>> THEN <<t>> ELSE <<>>) \o read_raw_items(Tail(lines))

\* the strings of the items whose indices are ix
ItemsOf(ix) == [k \in 1..Len(ix) |-> raw_items[ix[k]]]

\* a mutant of add_len: the separator is not counted
add_len_no_separator(candidate, current_items) == Len(candidate)

\* add_len = len(candidate) if not current_items else len(candidate) + 2
add_len(candidate, current_items) ==
    IF current_items = <<>> THEN Len(candidate) ELSE Len(candidate) + 2

RECURSIVE inner_loop(_, _, _)
\* the inner while loop: returns the indices taken, current_len and used
inner_loop(current_items, current_len, u) ==
    IF u < Len(raw_items)
    THEN LET candidate == raw_items[u + 1]
             al == add_len(candidate, current_items)
         IN  IF current_len + al <= MAX_BODY
             THEN inner_loop(Append(current_items, u + 1), current_len + al, u + 1)
             ELSE [items |-> current_items, len |-> current_len, used |-> u]
    ELSE [items |-> current_items, len |-> current_len, used |-> u]

\* body_line = (", ".join(current_items) + "\n") if current_items else ""
body_line(items) ==
    IF items # <<>> THEN Join(items) \o <<"\n">> ELSE <<>>

\* content = sql_query_pref + body_line + sql_query_post
content_of(ix) == sql_query_pref \o body_line(ItemsOf(ix)) \o sql_query_post

\* the check made after the body is assembled
must_pop(ix) == Len(content_of(ix)) > MAX_TOTAL /\ ix # <<>>

\* source lines the model draws the file from
SrcLines ==
    { <<"a">>, <<"b", "b">>, <<"c", ",", " ", "d">>, <<"'">>, <<" ", "a">>, <<>> }

\* prefixes the template can produce (of length 1, 5 and 13)
Prefixes ==
    { <<"(">>,
      <<"I", "N", " ", "(", "\n">>,
      <<"W", "H", "E", "R", "E", " ", "x", " ", "I", "N", " ", "(", "\n">> }

\* scaled limits
TotalChoices == {12, 16, 20}
ReservedChoices == {4, 8, 12}

\* all sequences over S of length at most n
SeqUpTo(S, n) == UNION { [1..k -> S] : k \in 0..n }

\* state when main() has asked its questions and found the source file
SqlInit ==
    /\ src_file \in SeqUpTo(SrcLines, MaxItems)
    /\ backup_file = <<>>
    /\ raw_items = <<>>
    /\ sql_query_pref \in Prefixes
    /\ sql_query_post = build_sql_postfix
    /\ MAX_TOTAL \in TotalChoices
    /\ RESERVED \in ReservedChoices
    /\ count_sql = 0
    /\ used = 0
    /\ out_files = <<>>
    /\ groups = <<>>
    /\ popped = <<>>
    /\ sql_pc = "start"
    /\ TraceIdle
    /\ NormIdle
    /\ JoinIdle
    /\ RestIdle
    /\ RerunIdle

\* main(), lines 123-164: backup, rewrite of the source file, limits check,
\* reading of raw_items
Prepare ==
    /\ sql_pc = "start"
    /\ LET values == read_values(src_file)
           prepared == prepared_lines(values)
       IN  /\ backup_file' = src_file
           /\ src_file' = prepared
           /\ IF MAX_BODY <= 0
              THEN /\ sql_pc' = "done"
                   /\ raw_items' = <<>>
              ELSE /\ sql_pc' = "loop"
                   /\ raw_items' = read_raw_items(prepared)
    /\ UNCHANGED <<sql_query_pref, sql_query_post, MAX_TOTAL, RESERVED,
                   count_sql, used, out_files, groups, popped>>
    /\ UNCHANGED not_sql_vars

\* one iteration of the outer while loop, lines 171-197
EmitGroup ==
    /\ sql_pc = "loop"
    /\ used < Len(raw_items)
    /\ count_sql < MaxFiles
    /\ LET r == inner_loop(<<>>, 0, used)
           pop == must_pop(r.items)
           kept == IF pop THEN SubSeq(r.items, 1, Len(r.items) - 1) ELSE r.items
       IN  /\ count_sql' = count_sql + 1
           /\ used' = r.used
           /\ out_files' = IF count_sql + 1 <= Len(out_files)
                           THEN [out_files EXCEPT ![count_sql + 1] = content_of(kept)]
                           ELSE Append(out_files, content_of(kept))
           /\ groups' = Append(groups, kept)
           /\ popped' = Append(popped, IF pop THEN r.items[Len(r.items)] ELSE 0)
    /\ UNCHANGED <<src_file, backup_file, raw_items, sql_query_pref,
                   sql_query_post, MAX_TOTAL, RESERVED, sql_pc>>
    /\ UNCHANGED not_sql_vars

\* exit of the outer loop, lines 199-202
Finish ==
    /\ sql_pc = "loop"
    /\ used >= Len(raw_items)
    /\ sql_pc' = "done"
    /\ UNCHANGED <<src_file, backup_file, raw_items, sql_query_pref,
                   sql_query_post, MAX_TOTAL, RESERVED, count_sql, used,
                   out_files, groups, popped>>
    /\ UNCHANGED not_sql_vars

\* ------------------------------------------------------------------------
\* The group loop on its own: items, wrapper and limits drawn freely
\* ------------------------------------------------------------------------
\* items of the partition example
PartItems ==
    { <<"A", "A", "A", "A">>, <<"B", "B", "B", "B">>, <<"C", "C", "C", "C">> }

\* limits around the example's maxTotalBytes = 12
PartTotalChoices == {12, 13, 14}
PartReservedChoices == {0, 2}

\* state at line 167 for freely drawn items, wrapper and limits
PartInit ==
    /\ src_file = <<>>
    /\ backup_file = <<>>
    /\ raw_items \in SeqUpTo(PartItems, MaxItems)
    /\ sql_query_pref = <<"(">>
    /\ sql_query_post \in { <<")">>, build_sql_postfix }
    /\ MAX_TOTAL \in PartTotalChoices
    /\ RESERVED \in PartReservedChoices
    /\ count_sql = 0
    /\ used = 0
    /\ out_files = <<>>
    /\ groups = <<>>
    /\ popped = <<>>
    /\ sql_pc = "loop"
    /\ TraceIdle
    /\ NormIdle
    /\ JoinIdle
    /\ RestIdle
    /\ RerunIdle

\* ========================================================================
\* Part II: traceid_processor.py (operations)
\* ========================================================================
\* objects_per_group of chunk_first_proc_into_groups; the source sets 3500,
\* the model scales it down so that short inputs fill several groups
objects_per_group == 2

\* largest number of lines the deduplication loop reads, step by step
MaxLines == 4
\* largest number of lines of the file main() hands to the deduplication
MaxInput == 5

RECURSIVE re_sub_whitespace(_)
\* re.sub(r"\s+", "", s): every run of whitespace is replaced by nothing
re_sub_whitespace(s) ==
    IF s = <<>> THEN <<>>
    ELSE (IF IsSpace(Head(s)) THEN <<>> ELSE <<Head(s)>>)
         \o re_sub_whitespace(Tail(s))

\* a mutant of normalize_trace_id: only the first run of whitespace is
\* removed (re.sub with count=1)
normalize_first_run_only(s) ==
    LET at == { i \in 1..Len(s) : IsSpace(s[i]) }
    IN  IF at = {} THEN s
        ELSE LET first == CHOOSE i \in at : \A j \in at : i <= j
             IN  SubSeq(s, 1, first - 1) \o lstrip(SubSeq(s, first, Len(s)))

\* normalize_trace_id(s): return re.sub(r"\s+", "", s)
normalize_trace_id(s) == re_sub_whitespace(s)

\* a mutant of dedup_step: the stripped line is the key, not normalized
dedup_step_raw_key(st, raw) ==
    LET s == strip(raw)
    IN  IF s = <<>>
        THEN [st EXCEPT !.idx = @ + 1]
        ELSE IF s \in st.seen
             THEN [st EXCEPT !.idx = @ + 1, !.duplicates = @ + 1]
             ELSE [st EXCEPT !.idx = @ + 1, !.seen = @ \cup {s}]

\* a mutant of dedup_step: a repeated key is not counted
dedup_step_forget_duplicate(st, raw) ==
    LET n == normalize_trace_id(strip(raw))
    IN  IF n = <<>> \/ n \in st.seen
        THEN [st EXCEPT !.idx = @ + 1]
        ELSE [st EXCEPT !.idx = @ + 1, !.seen = @ \cup {n}]

\* a mutant of dedup_step: a blank line is counted as a duplicate
dedup_step_blank_is_duplicate(st, raw) ==
    LET n == normalize_trace_id(strip(raw))
    IN  IF n = <<>> \/ n \in st.seen
        THEN [st EXCEPT !.idx = @ + 1, !.duplicates = @ + 1]
        ELSE [st EXCEPT !.idx = @ + 1, !.seen = @ \cup {n}]

\* the body of the for loop of unique_trace_ids_with_progress for one line:
\* st = [seen, duplicates, idx]
dedup_step(st, raw) ==
    LET s == strip(raw)
        n == normalize_trace_id(s)
    IN  IF s = <<>> \/ n = <<>>
        THEN [st EXCEPT !.idx = @ + 1]
        ELSE IF n \in st.seen
             THEN [st EXCEPT !.idx = @ + 1, !.duplicates = @ + 1]
             ELSE [st EXCEPT !.idx = @ + 1, !.seen = @ \cup {n}]

RECURSIVE dedup_all(_, _)
\* the whole for loop over the lines of the file
dedup_all(st, lines) ==
    IF lines = <<>> THEN st
    ELSE dedup_all(dedup_step(st, Head(lines)), Tail(lines))

\* tuple(seen): the elements of the set in the iteration order of the set,
\* which Python leaves open (it follows the hashes of the strings)
TupleOf(S) ==
    { t \in [1..Cardinality(S) -> S] : \A i, j \in 1..Cardinality(S) :
                                           i # j => t[i] # t[j] }

ObjOpen == <<"{">>

ObjMatch ==
    <<" ", " ", "\"", "m", "a", "t", "c", "h", "_", "p", "h", "r",
      "a", "s", "e", "\"", ":", " ", "{">>

ObjIdHead ==
    <<" ", " ", " ", " ", "\"", "t", "r", "a", "c", "e", "I", "d",
      "\"", ":", " ", "\"">>

ObjIdTail == <<"\"">>

ObjInnerClose == <<" ", " ", "}">>

ObjCloseComma == <<"}", ",">>

ObjClose == <<"}">>

\* PREFIX.splitlines()
PREFIX ==
    << <<"{">>,
       <<" ", " ", "\"", "q", "u", "e", "r", "y", "\"", ":", " ", "{">>,
       <<" ", " ", " ", " ", "\"", "b", "o", "o", "l", "\"", ":", " ", "{">>,
       <<" ", " ", " ", " ", " ", " ", "\"", "s", "h", "o", "u", "l",
         "d", "\"", ":", " ", "[">> >>

\* SUFFIX.splitlines()
SUFFIX ==
    << <<" ", " ", "]", ",">>,
       <<" ", " ", " ", " ", " ", " ", "\"", "m", "i", "n", "i", "m",
         "u", "m", "_", "s", "h", "o", "u", "l", "d", "_", "m", "a",
         "t", "c", "h", "\"", ":", " ", "1">>,
       <<" ", " ", " ", " ", "}">>,
       <<" ", " ", "}">>,
       <<"}">> >>

\* the five lines to_group_dsl yields for one cleaned trace id
object_lines_of(tid_clean) ==
    << ObjOpen, ObjMatch, ObjIdHead \o tid_clean \o ObjIdTail, ObjInnerClose,
       ObjCloseComma >>

RECURSIVE to_group_dsl(_)
\* to_group_dsl(trace_ids)
to_group_dsl(trace_ids) ==
    IF trace_ids = <<>> THEN <<>>
    ELSE LET tid_clean == normalize_trace_id(Head(trace_ids))
         IN  (IF tid_clean = <<>> THEN <<>> ELSE object_lines_of(tid_clean))
             \o to_group_dsl(Tail(trace_ids))

\* math.ceil(count_objects / objects_per_group) if count_objects > 0 else 0
groups_count_of(count_objects) ==
    IF count_objects > 0
    THEN (count_objects + objects_per_group - 1) \div objects_per_group
    ELSE 0

\* a mutant of group_is_full: the group is closed one object too late
group_is_full_late(objects_in_current_group) ==
    objects_in_current_group > objects_per_group

\* objects_in_current_group >= objects_per_group
group_is_full(objects_in_current_group) ==
    objects_in_current_group >= objects_per_group

\* write_lines(target, lines) on the group files: file number g is replaced
write_group(files, g, lines) ==
    IF g <= Len(files) THEN [files EXCEPT ![g] = lines]
    ELSE files \o [k \in 1..(g - Len(files)) |-> IF k = g - Len(files) THEN lines ELSE <<>>]

\* a mutant of flush_group: lines_buffer is not emptied after the write
flush_group_keeps_buffer(st) ==
    IF st.lines_buffer # <<>>
    THEN [st EXCEPT !.files = write_group(@, st.current_group, st.lines_buffer)]
    ELSE st

\* flush_group(): st = [object_lines, lines_buffer, current_group,
\*                      objects_in_current_group, files]
flush_group(st) ==
    IF st.lines_buffer # <<>>
    THEN [st EXCEPT !.files = write_group(@, st.current_group, st.lines_buffer),
                    !.lines_buffer = <<>>]
    ELSE st

RECURSIVE chunk_loop(_, _)
\* the for loop over the lines of the first-proc file, and the final flush
chunk_loop(st, lines) ==
    IF lines = <<>> THEN flush_group(st)
    ELSE LET s1 == [st EXCEPT !.object_lines = Append(@, Head(lines))]
         IN  IF Len(s1.object_lines) = 5
             THEN LET s2 == IF group_is_full(s1.objects_in_current_group)
                            THEN [flush_group(s1) EXCEPT
                                     !.current_group = @ + 1,
                                     !.objects_in_current_group = 0]
                            ELSE s1
                      s3 == [s2 EXCEPT
                                !.lines_buffer = @ \o s2.object_lines,
                                !.objects_in_current_group = @ + 1,
                                !.object_lines = <<>>]
                  IN  chunk_loop(s3, Tail(lines))
             ELSE chunk_loop(s1, Tail(lines))

\* the group files after chunk_first_proc_into_groups(file, dir, count_objects)
chunk_first_proc_into_groups(lines, count_objects) ==
    LET gc == groups_count_of(count_objects)
        touched == [i \in 1..gc |-> <<>>]
    IN  IF gc = 0 THEN touched
        ELSE chunk_loop([object_lines |-> <<>>, lines_buffer |-> <<>>,
                         current_group |-> 1, objects_in_current_group |-> 0,
                         files |-> touched], lines).files

\* a mutant of strip_last_comma: the loop does not break at the first match
strip_every_comma(lines) ==
    [i \in 1..Len(lines) |-> IF strip(lines[i]) = ObjCloseComma THEN ObjClose
                             ELSE lines[i]]

\* the backwards loop of wrap_group_file: the last line that is "}," after
\* strip() becomes "}"
strip_last_comma(lines) ==
    LET hits == { i \in 1..Len(lines) : strip(lines[i]) = ObjCloseComma }
    IN  IF hits = {} THEN lines
        ELSE LET last == CHOOSE i \in hits : \A j \in hits : j <= i
             IN  [lines EXCEPT ![last] = ObjClose]

\* the lines wrap_group_file writes back
wrap_group_file(lines) == PREFIX \o strip_last_comma(lines) \o SUFFIX

\* lines of the file the model draws from
RawLines ==
    { <<"a">>, <<"b">>, <<"c">>, <<"d">>, <<"a", "b">>, <<"a", " ", "b">>,
      <<" ">> }

\* main() has asked its inputs and found the source file
TraceInit ==
    /\ seen = {}
    /\ duplicates = 0
    /\ idx = 0
    /\ consumed = <<>>
    /\ unique_ids = <<>>
    /\ first_proc = <<>>
    /\ group_files = <<>>
    /\ groupsCount = 0
    /\ wrap_i = 0
    /\ wrapped = <<>>
    /\ trace_pc = "main"
    /\ SqlIdle
    /\ NormIdle
    /\ JoinIdle
    /\ RestIdle
    /\ RerunIdle

\* main(), line 204: the call of unique_trace_ids_with_progress on a file
UniqueTraceIds ==
    /\ trace_pc = "main"
    /\ \E lines \in SeqUpTo(RawLines, MaxInput) :
          LET st == dedup_all([seen |-> {}, duplicates |-> 0, idx |-> 0], lines)
          IN  /\ seen' = st.seen
              /\ duplicates' = st.duplicates
              /\ idx' = st.idx
              /\ unique_ids' \in TupleOf(st.seen)
    /\ trace_pc' = "unique"
    /\ UNCHANGED <<consumed, first_proc, group_files, groupsCount, wrap_i, wrapped>>
    /\ UNCHANGED not_trace_vars

\* main(), lines 205-208: save_first_proc(to_group_dsl(ids_tuple))
SaveFirstProc ==
    /\ trace_pc = "unique"
    /\ first_proc' = to_group_dsl(unique_ids)
    /\ trace_pc' = "first_proc"
    /\ UNCHANGED <<seen, duplicates, idx, consumed, unique_ids, group_files,
                   groupsCount, wrap_i, wrapped>>
    /\ UNCHANGED not_trace_vars

\* main(), lines 209-210: chunk_first_proc_into_groups(first_proc, dir, Count)
Chunk ==
    /\ trace_pc = "first_proc"
    /\ group_files' = chunk_first_proc_into_groups(first_proc, Len(unique_ids))
    /\ groupsCount' = groups_count_of(Len(unique_ids))
    /\ wrapped' = [i \in 1..Len(group_files') |-> 0]
    /\ wrap_i' = 0
    /\ trace_pc' = IF groupsCount' > 0 THEN "wrap" ELSE "done"
    /\ UNCHANGED <<seen, duplicates, idx, consumed, unique_ids, first_proc>>
    /\ UNCHANGED not_trace_vars

\* one iteration of the loop of last_process_all_groups
WrapStep ==
    /\ trace_pc = "wrap"
    /\ wrap_i < groupsCount
    /\ wrap_i' = wrap_i + 1
    /\ group_files' = [group_files EXCEPT ![wrap_i + 1] = wrap_group_file(@)]
    /\ wrapped' = [wrapped EXCEPT ![wrap_i + 1] = @ + 1]
    /\ UNCHANGED <<seen, duplicates, idx, consumed, unique_ids, first_proc,
                   groupsCount, trace_pc>>
    /\ UNCHANGED not_trace_vars

\* last_process_all_groups returns; main() prints the summary
WrapDone ==
    /\ trace_pc = "wrap"
    /\ wrap_i >= groupsCount
    /\ trace_pc' = "done"
    /\ UNCHANGED <<seen, duplicates, idx, consumed, unique_ids, first_proc,
                   group_files, groupsCount, wrap_i, wrapped>>
    /\ UNCHANGED not_trace_vars

\* ------------------------------------------------------------------------
\* unique_trace_ids_with_progress line by line
\* ------------------------------------------------------------------------
\* entry of unique_trace_ids_with_progress, line 72
DedupInit ==
    /\ seen = {}
    /\ duplicates = 0
    /\ idx = 0
    /\ consumed = <<>>
    /\ unique_ids = <<>>
    /\ first_proc = <<>>
    /\ group_files = <<>>
    /\ groupsCount = 0
    /\ wrap_i = 0
    /\ wrapped = <<>>
    /\ trace_pc = "dedup"
    /\ SqlIdle
    /\ NormIdle
    /\ JoinIdle
    /\ RestIdle
    /\ RerunIdle

\* one iteration of the for loop, lines 76-89: the next line of the file
DedupStep ==
    /\ trace_pc = "dedup"
    /\ idx < MaxLines
    /\ \E raw \in RawLines :
          LET st == dedup_step([seen |-> seen, duplicates |-> duplicates,
                                idx |-> idx], raw)
          IN  /\ seen' = st.seen
              /\ duplicates' = st.duplicates
              /\ idx' = st.idx
              /\ consumed' = Append(consumed, raw)
    /\ UNCHANGED <<unique_ids, first_proc, group_files, groupsCount, wrap_i,
                   wrapped, trace_pc>>
    /\ UNCHANGED not_trace_vars

\* end of the file, lines 91-96: return tuple(seen), duplicates
DedupReturn ==
    /\ trace_pc = "dedup"
    /\ unique_ids' \in TupleOf(seen)
    /\ trace_pc' = "returned"
    /\ UNCHANGED <<seen, duplicates, idx, consumed, first_proc, group_files,
                   groupsCount, wrap_i, wrapped>>
    /\ UNCHANGED not_trace_vars

\* ------------------------------------------------------------------------
\* normalize_trace_id on one token
\* ------------------------------------------------------------------------
\* longest token given to normalize_trace_id
MaxTokenLen == 4

\* the characters of the tokens: two letters and three kinds of whitespace
TokenChars == {"a", "b", " ", "\t", "\n"}

NormInit ==
    /\ token \in SeqUpTo(TokenChars, MaxTokenLen)
    /\ tid = <<>>
    /\ tid_norm = <<>>
    /\ norm_pc = "token"
    /\ SqlIdle
    /\ TraceIdle
    /\ JoinIdle
    /\ RestIdle
    /\ RerunIdle

\* the call of line 84 (and of lines 58-61 on any text)
NormalizeToken ==
    /\ norm_pc = "token"
    /\ tid' = normalize_trace_id(token)
    /\ norm_pc' = "normalized"
    /\ UNCHANGED <<token, tid_norm>>
    /\ UNCHANGED not_norm_vars

\* the call of line 100 in to_group_dsl, on the key stored before
NormalizeAgain ==
    /\ norm_pc = "normalized"
    /\ tid_norm' = normalize_trace_id(tid)
    /\ norm_pc' = "again"
    /\ UNCHANGED <<token, tid>>
    /\ UNCHANGED not_norm_vars

\* ========================================================================
\* Part III: summator.py (operations)
\* ========================================================================
\* A worksheet cell is a text or None; a row is a sequence of cells.  Column
\* positions count from 1, so the -1 of dict.get(key, -1) is 0 here.

\* the value None of a cell (no text has a character of several letters)
None == <<"None">>

\* the header texts the program looks for
customerId == <<"c", "u", "s", "t", "o", "m", "e", "r", "I", "d">>

cardId == <<"c", "a", "r", "d", "I", "d">>

account == <<"a", "c", "c", "o", "u", "n", "t">>

terminalId == <<"t", "e", "r", "m", "i", "n", "a", "l", "I", "d">>

F0UCUS1 == <<"F", "0", "U", "C", "U", "S", "1">>

F0UIDPL == <<"F", "0", "U", "I", "D", "P", "L">>

F0UEAN == <<"F", "0", "U", "E", "A", "N">>

F0USCRD == <<"F", "0", "U", "S", "C", "R", "D">>

F0USCON == <<"F", "0", "U", "S", "C", "O", "N">>

SCACT == <<"S", "C", "A", "C", "T">>

KIBANA_SET == {customerId, cardId, account, terminalId}

EQ_BASE_SET == {F0UCUS1, F0UIDPL, F0UEAN, F0USCRD, F0USCON}

EQ_FULL_SET == {F0UCUS1, F0UIDPL, F0UEAN, F0USCRD, F0USCON, SCACT}

\* a mutant of issubset: one common element is enough
issubset_any(A, B) == A \cap B # {}

\* A.issubset(B)
issubset(A, B) == A \subseteq B

\* a mutant of dict_put: a key already stored keeps its value
dict_put_keep_first(d, k, v) == d @@ (k :> v)

\* d[k] = v
dict_put(d, k, v) == (k :> v) @@ d

\* d.get(k, default)
dict_get(d, k, default) == IF k \in DOMAIN d THEN d[k] ELSE default

\* the largest element of a non-empty set of numbers
Max(S) == CHOOSE x \in S : \A y \in S : y <= x

\* str(v) if v is not None else ""
header_text(v) == IF v = None THEN <<>> ELSE v

\* read_headers_xlsx(path), and the headers returned by load_rows(path)
read_headers_xlsx(file) ==
    [ i \in 1..Len(file.headers) |-> header_text(file.headers[i]) ]

\* classify_file(path): "kibana", "eq" or "None"
classify_file(file) ==
    LET raw == read_headers_xlsx(file)
        set_h == { strip(raw[i]) : i \in 1..Len(raw) }
    IN  IF issubset(KIBANA_SET, set_h) THEN "kibana"
        ELSE IF issubset(EQ_BASE_SET, set_h) \/ issubset(EQ_FULL_SET, set_h)
             THEN "eq"
             ELSE "None"

RECURSIVE classify_loop(_, _, _)
\* the for loop of lines 279-284 from file i on: the dict roles, and whether
\* every file was recognized
classify_loop(files, i, r) ==
    IF i > Len(files) THEN [recognized |-> TRUE, roles |-> r]
    ELSE LET label == classify_file(files[i])
         IN  IF label = "None" THEN [recognized |-> FALSE, roles |-> r]
             ELSE classify_loop(files, i + 1, dict_put(r, label, i))

\* ask_key() when the user types choice
ask_key(choice) ==
    CASE choice = "1" -> [key_name |-> "CUS", kib_key |-> "kibana_cus",
                          eq_key |-> "eq_cus"]
      [] choice = "2" -> [key_name |-> "Card", kib_key |-> "kibana_card",
                          eq_key |-> "eq_card"]
      [] choice = "3" -> [key_name |-> "Account", kib_key |-> "kibana_account",
                          eq_key |-> "eq_account"]
      [] OTHER -> [key_name |-> "", kib_key |-> "", eq_key |-> ""]

\* the name rename_columns_kibana gives to a header, "" when it gives none
kibana_column(hn) ==
    CASE hn = customerId -> "kibana_cus"
      [] hn = cardId -> "kibana_card"
      [] hn = account -> "kibana_account"
      [] hn = terminalId -> "kibana_terminal"
      [] OTHER -> ""

\* the name rename_columns_eq gives to a header, "" when it gives none
eq_column(hn) ==
    CASE hn = F0UCUS1 -> "eq_cus"
      [] hn = F0UIDPL -> "eq_card"
      [] hn = F0UEAN -> "eq_account"
      [] hn = F0USCRD -> "eq_type"
      [] hn = F0USCON -> "eq_contract"
      [] hn = SCACT -> "eq_scact"
      [] OTHER -> ""

\* rename_columns_kibana(headers): name -> position of the last header of
\* that name
rename_columns_kibana(headers) ==
    LET names == [ i \in 1..Len(headers) |-> kibana_column(strip(headers[i])) ]
        found == Range(names) \ {""}
    IN  [ n \in found |-> Max({ i \in 1..Len(names) : names[i] = n }) ]

\* rename_columns_eq(headers)
rename_columns_eq(headers) ==
    LET names == [ i \in 1..Len(headers) |-> eq_column(strip(headers[i])) ]
        found == Range(names) \ {""}
    IN  [ n \in found |-> Max({ i \in 1..Len(names) : names[i] = n }) ]

\* the text of a column name of the result
column_text(n) ==
    CASE n = "eq_cus" -> <<"e", "q", "_", "c", "u", "s">>
      [] n = "eq_card" -> <<"e", "q", "_", "c", "a", "r", "d">>
      [] n = "eq_account" -> <<"e", "q", "_", "a", "c", "c", "o", "u", "n", "t">>
      [] n = "eq_type" -> <<"e", "q", "_", "t", "y", "p", "e">>
      [] n = "eq_contract" -> <<"e", "q", "_", "c", "o", "n", "t", "r", "a", "c", "t">>
      [] n = "eq_scact" -> <<"e", "q", "_", "s", "c", "a", "c", "t">>
      [] n = "kibana_cus" -> <<"k", "i", "b", "a", "n", "a", "_", "c", "u", "s">>
      [] n = "kibana_card" -> <<"k", "i", "b", "a", "n", "a", "_", "c", "a", "r", "d">>
      [] n = "kibana_account" -> <<"k", "i", "b", "a", "n", "a", "_", "a", "c", "c", "o", "u", "n", "t">>
      [] n = "kibana_terminal" -> <<"k", "i", "b", "a", "n", "a", "_", "t", "e", "r", "m", "i", "n", "a", "l">>

\* load_rows(path): the headers as texts and the other rows
load_rows(file) == [headers |-> read_headers_xlsx(file), rows |-> file.rows]

\* the list values built for one record at lines 148-151
project(r, select_cols) ==
    [ j \in 1..Len(select_cols) |->
        IF select_cols[j] \in 1..Len(r) THEN r[select_cols[j]] ELSE None ]

RECURSIVE build_map_from(_, _, _, _)
\* the for loop of build_map, started with the dict m
build_map_from(m, rows, col_index, select_cols) ==
    IF rows = <<>> THEN m
    ELSE LET r == Head(rows)
             m2 == IF col_index < 1 \/ col_index > Len(r) THEN m
                   ELSE dict_put(m, r[col_index], project(r, select_cols))
         IN  build_map_from(m2, Tail(rows), col_index, select_cols)

\* a mutant of build_map: records with an empty key are passed over
build_map_without_none(rows, col_index, select_cols) ==
    LET d == build_map_from(EmptyDict, rows, col_index, select_cols)
    IN  [k \in DOMAIN d \ {None} |-> d[k]]

\* build_map(rows, col_index, select_cols)
build_map(rows, col_index, select_cols) ==
    build_map_from(EmptyDict, rows, col_index, select_cols)

\* a mutant of join_keys: the keys of the left map only
join_keys_left_only(left_map, right_map) == DOMAIN left_map

\* keys = set(left_map.keys()) | set(right_map.keys())
join_keys(left_map, right_map) == DOMAIN left_map \cup DOMAIN right_map

\* [None] * width
none_list(width) == [ i \in 1..width |-> None ]

\* a mutant of joined_row: the two widths are exchanged in the padding
joined_row_widths_exchanged(left_map, right_map, left_width, right_width, k) ==
    (IF k \in DOMAIN left_map THEN left_map[k] ELSE none_list(right_width))
    \o (IF k \in DOMAIN right_map THEN right_map[k] ELSE none_list(left_width))

\* the body of the for loop of full_outer_join, lines 159-165: the row
\* appended for key k
joined_row(left_map, right_map, left_width, right_width, k) ==
    LET left_vals == IF k \in DOMAIN left_map THEN left_map[k]
                     ELSE none_list(left_width)
        right_vals == IF k \in DOMAIN right_map THEN right_map[k]
                      ELSE none_list(right_width)
    IN  left_vals \o right_vals

\* full_outer_join(left_map, right_map, left_width, right_width) when the
\* set keys is iterated in the order given
full_outer_join(left_map, right_map, left_width, right_width, order) ==
    [ i \in 1..Len(order) |->
        joined_row(left_map, right_map, left_width, right_width, order[i]) ]

\* is_nonempty(v)
is_nonempty(v) == v # None /\ strip(v) # <<>>

\* row[a:b] of Python, a and b counted from 0
slice(row, a, b) ==
    SubSeq(row, a + 1, IF b < Len(row) THEN b ELSE Len(row))

\* a mutant of group_row: group 1 asks only that the Kibana block is not full
group_row_not_full(row, eq_width, kib_width) ==
    LET eq_vals == slice(row, 0, eq_width)
        kb_vals == slice(row, eq_width, eq_width + kib_width)
        eq_all == \A i \in 1..Len(eq_vals) : is_nonempty(eq_vals[i])
        kb_all == \A i \in 1..Len(kb_vals) : is_nonempty(kb_vals[i])
        eq_any == \E i \in 1..Len(eq_vals) : is_nonempty(eq_vals[i])
    IN  IF eq_all /\ kb_all THEN 0
        ELSE IF eq_all /\ ~kb_all THEN 1
        ELSE IF kb_all /\ ~eq_any THEN 2
        ELSE 3

\* group_row(row) inside sort_joined_file(xlsx_path, eq_width, kib_width)
group_row(row, eq_width, kib_width) ==
    LET eq_vals == slice(row, 0, eq_width)
        kb_vals == slice(row, eq_width, eq_width + kib_width)
        eq_all == \A i \in 1..Len(eq_vals) : is_nonempty(eq_vals[i])
        kb_all == \A i \in 1..Len(kb_vals) : is_nonempty(kb_vals[i])
        eq_any == \E i \in 1..Len(eq_vals) : is_nonempty(eq_vals[i])
        kb_any == \E i \in 1..Len(kb_vals) : is_nonempty(kb_vals[i])
    IN  IF eq_all /\ kb_all THEN 0
        ELSE IF eq_all /\ ~kb_any THEN 1
        ELSE IF kb_all /\ ~eq_any THEN 2
        ELSE 3

\* the dict grouped after the loop of lines 246-248
grouped_of(data, eq_width, kib_width) ==
    [ g \in 0..3 |->
        LET in_group(r) == group_row(r, eq_width, kib_width) = g
        IN  SelectSeq(data, in_group) ]

\* a mutant of sorted_data_of: the groups 1 and 2 change places
sorted_data_swapped(g) == g[0] \o g[2] \o g[1] \o g[3]

\* a mutant of sorted_data_of: the rows of group 3 are left out
sorted_data_without_rest(g) == g[0] \o g[1] \o g[2]

\* sorted_data of line 249
sorted_data_of(g) == g[0] \o g[1] \o g[2] \o g[3]

\* eq_select of lines 329-337
eq_select_of(eq_idx) ==
    << eq_idx["eq_cus"], eq_idx["eq_card"], eq_idx["eq_account"],
       eq_idx["eq_type"], eq_idx["eq_contract"] >>
    \o (IF "eq_scact" \in DOMAIN eq_idx THEN << eq_idx["eq_scact"] >> ELSE <<>>)

\* kib_select of lines 339-344
kib_select_of(kib_idx) ==
    << kib_idx["kibana_cus"], kib_idx["kibana_card"],
       kib_idx["kibana_account"], kib_idx["kibana_terminal"] >>

\* out_headers of lines 355-358
out_headers_of(eq_width) ==
    << column_text("eq_cus"), column_text("eq_card"),
       column_text("eq_account"), column_text("eq_type"),
       column_text("eq_contract") >>
    \o (IF eq_width = 6 THEN << column_text("eq_scact") >> ELSE <<>>)
    \o << column_text("kibana_cus"), column_text("kibana_card"),
          column_text("kibana_account"), column_text("kibana_terminal") >>

\* ------------------------------------------------------------------------
\* summator.main on a directory of two workbooks
\* ------------------------------------------------------------------------
\* largest number of data rows of a workbook
MaxRows == 2

\* header rows of EQ exports: the five base columns; the six columns in
\* another order, one of them padded with a blank; F0USCON missing
EqHeaderChoices ==
    { <<F0UCUS1, F0UIDPL, F0UEAN, F0USCRD, F0USCON>>,
      <<SCACT, F0UCUS1 \o <<" ">>, F0UIDPL, F0UEAN, F0USCRD, F0USCON>>,
      <<F0UCUS1, F0UIDPL, F0UEAN, F0USCRD>> }

\* header rows of Kibana exports: the four columns; cardId missing
KibHeaderChoices ==
    { <<customerId, cardId, account, terminalId>>,
      <<customerId, account, terminalId>> }

\* records of an EQ export, by column
EqSamples ==
    { [eq_cus |-> <<"A">>, eq_card |-> <<"1">>, eq_account |-> <<"x">>,
       eq_type |-> <<"t">>, eq_contract |-> <<"k">>, eq_scact |-> <<"s">>],
      [eq_cus |-> <<"A">>, eq_card |-> <<"2">>, eq_account |-> None,
       eq_type |-> <<"t">>, eq_contract |-> <<"k">>, eq_scact |-> <<"s">>],
      [eq_cus |-> None, eq_card |-> <<"2">>, eq_account |-> None,
       eq_type |-> <<" ">>, eq_contract |-> <<"k">>, eq_scact |-> None] }

\* records of a Kibana export, by column
KibSamples ==
    { [kibana_cus |-> <<"A">>, kibana_card |-> <<"2">>,
       kibana_account |-> <<"x">>, kibana_terminal |-> <<"T">>],
      [kibana_cus |-> <<"A", " ">>, kibana_card |-> <<"1">>,
       kibana_account |-> <<"x">>, kibana_terminal |-> <<" ">>],
      [kibana_cus |-> None, kibana_card |-> None,
       kibana_account |-> None, kibana_terminal |-> None] }

\* the worksheet row of an EQ record under a header row
eq_sheet_row(record, headers) ==
    [ i \in 1..Len(headers) |->
        LET n == eq_column(strip(headers[i]))
        IN  IF n = "" THEN None ELSE record[n] ]

\* the worksheet row of a Kibana record under a header row
kib_sheet_row(record, headers) ==
    [ i \in 1..Len(headers) |->
        LET n == kibana_column(strip(headers[i]))
        IN  IF n = "" THEN None ELSE record[n] ]

\* the workbooks an EQ export can be
EqFiles ==
    { [headers |-> h,
       rows |-> [ i \in 1..Len(q) |-> eq_sheet_row(q[i], h) ],
       exists |-> TRUE] :
      h \in EqHeaderChoices, q \in SeqUpTo(EqSamples, MaxRows) }

\* the workbooks a Kibana export can be
KibFiles ==
    { [headers |-> h,
       rows |-> [ i \in 1..Len(q) |-> kib_sheet_row(q[i], h) ],
       exists |-> TRUE] :
      h \in KibHeaderChoices, q \in SeqUpTo(KibSamples, MaxRows) }

\* the header texts of a workbook, stripped
HeaderNames(file) ==
    { strip(header_text(file.headers[i])) : i \in 1..Len(file.headers) }

\* the directories main() is run on: an EQ export and a Kibana export with
\* all their columns and up to MaxRows records each; and any two workbooks
\* of one record each, in either order, with or without all their columns
Directories ==
    { <<f, g>> : f \in { e \in EqFiles : EQ_BASE_SET \subseteq HeaderNames(e) },
                 g \in { k \in KibFiles : KIBANA_SET \subseteq HeaderNames(k) } }
    \cup { <<f, g>> : f \in { w \in EqFiles \cup KibFiles : Len(w.rows) = 1 },
                      g \in { w \in EqFiles \cup KibFiles : Len(w.rows) = 1 } }

\* what the user can type at the prompt of ask_key
KeyChoices == {"1", "2", "3", "0"}

JoinInit ==
    /\ xlsx_files \in Directories
    /\ roles = EmptyDict
    /\ key_name = ""
    /\ kib_key = ""
    /\ eq_key = ""
    /\ eq_map = EmptyDict
    /\ kib_map = EmptyDict
    /\ joined_keys = <<>>
    /\ joined_rows = <<>>
    /\ out_file = NoFile
    /\ grouped = EmptyDict
    /\ join_msg = ""
    /\ join_pc = "start"
    /\ SqlIdle
    /\ TraceIdle
    /\ NormIdle
    /\ RestIdle
    /\ RerunIdle

\* main() gives up: it prints msg and returns (pc "aborted"), or an
\* exception leaves it (pc "crashed")
GiveUp(pc, msg) ==
    /\ join_pc' = pc
    /\ join_msg' = msg

\* a mutant of not_two_files: more than two workbooks are let through
not_two_files_too_few(files) == Len(files) < 2

\* len(xlsx_files) != 2
not_two_files(files) == Len(files) # 2

\* lines 271-291: two workbooks are expected and each gets its role
ClassifyFiles ==
    /\ join_pc = "start"
    /\ LET c == classify_loop(xlsx_files, 1, EmptyDict)
       IN  IF not_two_files(xlsx_files)
           THEN GiveUp("aborted", "not two files") /\ UNCHANGED roles
           ELSE IF ~c.recognized
           THEN GiveUp("aborted", "file not recognized") /\ roles' = c.roles
           ELSE IF "kibana" \notin DOMAIN c.roles \/ "eq" \notin DOMAIN c.roles
           THEN GiveUp("aborted", "roles not determined") /\ roles' = c.roles
           ELSE /\ roles' = c.roles
                /\ join_pc' = "ask_key"
                /\ UNCHANGED join_msg
    /\ UNCHANGED <<xlsx_files, key_name, kib_key, eq_key, eq_map, kib_map,
                   joined_keys, joined_rows, out_file, grouped>>
    /\ UNCHANGED not_join_vars

\* lines 293-296: the key is asked for
AskKey ==
    /\ join_pc = "ask_key"
    /\ \E choice \in KeyChoices :
          LET k == ask_key(choice)
          IN  /\ key_name' = k.key_name
              /\ kib_key' = k.kib_key
              /\ eq_key' = k.eq_key
              /\ IF k.key_name = ""
                 THEN GiveUp("returned", "input not recognized")
                 ELSE join_pc' = "load" /\ UNCHANGED join_msg
    /\ UNCHANGED <<xlsx_files, roles, eq_map, kib_map, joined_keys,
                   joined_rows, out_file, grouped>>
    /\ UNCHANGED not_join_vars

\* kib_headers_raw, kib_rows_raw = load_rows(kibana_path)
kib_loaded == load_rows(xlsx_files[roles["kibana"]])

\* eq_headers_raw, eq_rows_raw = load_rows(eq_path)
eq_loaded == load_rows(xlsx_files[roles["eq"]])

\* kib_idx of line 309
kib_idx == rename_columns_kibana(kib_loaded.headers)

\* eq_idx of line 310
eq_idx == rename_columns_eq(eq_loaded.headers)

\* required_kib of line 313
required_kib == {"kibana_cus", "kibana_card", "kibana_account", "kibana_terminal"}

\* required_eq of line 314
required_eq == {"eq_cus", "eq_card", "eq_account", "eq_type", "eq_contract"}

\* len(eq_select), the width of the EQ block
eq_width == LET ei == eq_idx IN Len(eq_select_of(ei))

\* len(kib_select), the width of the Kibana block
kib_width == LET ki == kib_idx IN Len(kib_select_of(ki))

\* lines 298-352: the rows are loaded, the columns are checked, the two
\* dicts are built and joined; the order in which the set of keys is
\* iterated is left open by Python
BuildAndJoin ==
    /\ join_pc = "load"
    /\ LET kib == kib_loaded
           eq == eq_loaded
           ki == rename_columns_kibana(kib.headers)
           ei == rename_columns_eq(eq.headers)
           kib_key_index == dict_get(ki, kib_key, 0)
           eq_key_index == dict_get(ei, eq_key, 0)
       IN  IF ~issubset(required_kib, DOMAIN ki)
           THEN /\ GiveUp("aborted", "kibana columns missing")
                /\ UNCHANGED <<eq_map, kib_map, joined_keys, joined_rows>>
           ELSE IF ~issubset(required_eq, DOMAIN ei)
           THEN /\ GiveUp("aborted", "eq columns missing")
                /\ UNCHANGED <<eq_map, kib_map, joined_keys, joined_rows>>
           ELSE IF kib_key_index < 1 \/ eq_key_index < 1
           THEN /\ GiveUp("aborted", "key columns not determined")
                /\ UNCHANGED <<eq_map, kib_map, joined_keys, joined_rows>>
           ELSE IF ~(required_eq \subseteq DOMAIN ei
                     /\ required_kib \subseteq DOMAIN ki)
           THEN \* eq_idx[...] or kib_idx[...] of lines 329-344 raises
                /\ GiveUp("crashed", "KeyError")
                /\ UNCHANGED <<eq_map, kib_map, joined_keys, joined_rows>>
           ELSE LET eq_select == eq_select_of(ei)
                    kib_select == kib_select_of(ki)
                    em == build_map(eq.rows, eq_key_index, eq_select)
                    km == build_map(kib.rows, kib_key_index, kib_select)
                IN  /\ eq_map' = em
                    /\ kib_map' = km
                    /\ \E order \in TupleOf(join_keys(em, km)) :
                          /\ joined_keys' = order
                          /\ joined_rows' =
                                full_outer_join(em, km, Len(eq_select),
                                                Len(kib_select), order)
                    /\ join_pc' = "joined"
                    /\ UNCHANGED join_msg
    /\ UNCHANGED <<xlsx_files, roles, key_name, kib_key, eq_key, out_file,
                   grouped>>
    /\ UNCHANGED not_join_vars

\* lines 354-363: write_output(out_path, out_headers, joined_rows)
WriteOutput ==
    /\ join_pc = "joined"
    /\ out_file' = [headers |-> out_headers_of(eq_width),
                    rows |-> joined_rows, exists |-> TRUE]
    /\ join_pc' = "written"
    /\ UNCHANGED <<xlsx_files, roles, key_name, kib_key, eq_key, eq_map,
                   kib_map, joined_keys, joined_rows, grouped, join_msg>>
    /\ UNCHANGED not_join_vars

\* lines 365-366: sort_joined_file(out_path, eq_width, kib_width)
SortJoined ==
    /\ join_pc = "written"
    /\ LET L == eq_width
           R == kib_width
           g == grouped_of(out_file.rows, L, R)
       IN  /\ grouped' = g
           /\ out_file' = [out_file EXCEPT !.rows = sorted_data_of(g)]
    /\ join_pc' = "done"
    /\ UNCHANGED <<xlsx_files, roles, key_name, kib_key, eq_key, eq_map,
                   kib_map, joined_keys, joined_rows, join_msg>>
    /\ UNCHANGED not_join_vars

\* ------------------------------------------------------------------------
\* sql_generator run again on the same source file
\* ------------------------------------------------------------------------
\* largest number of runs of one part of the program on the same input
MaxRuns == 2

\* state when main() has asked its questions for the first time; the prefix
\* is the one of the default template, the limits are the largest of the
\* scaled ones
RerunInit ==
    /\ src_file \in SeqUpTo(SrcLines, MaxItems)
    /\ backup_file = <<>>
    /\ raw_items = <<>>
    /\ sql_query_pref = <<"I", "N", " ", "(", "\n">>
    /\ sql_query_post = build_sql_postfix
    /\ MAX_TOTAL = 20
    /\ RESERVED = 8
    /\ count_sql = 0
    /\ used = 0
    /\ out_files = <<>>
    /\ groups = <<>>
    /\ popped = <<>>
    /\ sql_pc = "start"
    /\ sql_runs = 0
    /\ text_before = src_file
    /\ items_before = <<>>
    /\ join_runs = 0
    /\ out_before = NoFile
    /\ TraceIdle
    /\ NormIdle
    /\ JoinIdle
    /\ RestIdle

\* main() has returned and is called again with the same answers: the files
\* stay as they are, the local variables start afresh
RunAgain ==
    /\ sql_pc = "done"
    /\ sql_runs + 1 < MaxRuns
    /\ sql_runs' = sql_runs + 1
    /\ items_before' = raw_items
    /\ raw_items' = <<>>
    /\ count_sql' = 0
    /\ used' = 0
    /\ groups' = <<>>
    /\ popped' = <<>>
    /\ sql_pc' = "start"
    /\ UNCHANGED <<src_file, backup_file, sql_query_pref, sql_query_post,
                   MAX_TOTAL, RESERVED, out_files, text_before, join_runs,
                   out_before>>
    /\ UNCHANGED <<trace_vars, norm_vars, join_vars, rest_vars>>

\* ------------------------------------------------------------------------
\* summator run again on the same directory
\* ------------------------------------------------------------------------
\* files with f put in after the first p of them
insert_at(files, p, f) ==
    SubSeq(files, 1, p) \o <<f>> \o SubSeq(files, p + 1, Len(files))

\* main() has returned after a complete run and is called again with the same
\* directory: list_two_xlsx now finds the output file too, at the place its
\* name has among the names of the other files
JoinAgain ==
    /\ join_pc = "done"
    /\ join_runs + 1 < MaxRuns
    /\ join_runs' = join_runs + 1
    /\ out_before' = out_file
    /\ \E p \in 0..Len(xlsx_files) :
          xlsx_files' = insert_at(xlsx_files, p,
                                  [headers |-> out_file.headers,
                                   rows |-> out_file.rows])
    /\ roles' = EmptyDict
    /\ key_name' = ""
    /\ kib_key' = ""
    /\ eq_key' = ""
    /\ eq_map' = EmptyDict
    /\ kib_map' = EmptyDict
    /\ joined_keys' = <<>>
    /\ joined_rows' = <<>>
    /\ grouped' = EmptyDict
    /\ join_msg' = ""
    /\ join_pc' = "start"
    /\ UNCHANGED <<out_file, sql_runs, text_before, items_before>>
    /\ UNCHANGED <<sql_vars, trace_vars, norm_vars, rest_vars>>

\* ========================================================================
\* Regular expressions of csv_processor.py and csv_processor_EQ.py
\* ========================================================================
\* the characters of [A-Z]
Upper ==
    { "A", "B", "C", "D", "E", "F", "G", "H", "I", "J", "K", "L", "M",
      "N", "O", "P", "Q", "R", "S", "T", "U", "V", "W", "X", "Y", "Z" }

\* the characters of [a-z]
Lower ==
    { "a", "b", "c", "d", "e", "f", "g", "h", "i", "j", "k", "l", "m",
      "n", "o", "p", "q", "r", "s", "t", "u", "v", "w", "x", "y", "z" }

\* the characters of [0-9]
Digits == { "0", "1", "2", "3", "4", "5", "6", "7", "8", "9" }

\* the characters of [A-Z0-9]
UpperOrDigit == Upper \cup Digits

\* the characters \w matches
WordChars == Upper \cup Lower \cup Digits \cup {"_"}

\* \b between text[p] and text[p + 1] (p = 0: before the first character)
word_boundary(text, p) ==
    (p >= 1 /\ p <= Len(text) /\ text[p] \in WordChars)
        # (p + 1 >= 1 /\ p + 1 <= Len(text) /\ text[p + 1] \in WordChars)

\* the result of a search that found nothing
NoMatch == [start |-> 0, stop |-> 0]

RECURSIVE run_length(_, _, _, _)
\* the greedy repetition [class]{..cap} tried from text[j] on: how many
\* characters it takes
run_length(text, j, class, cap) ==
    IF cap > 0 /\ j <= Len(text) /\ text[j] \in class
    THEN 1 + run_length(text, j + 1, class, cap - 1)
    ELSE 0

RECURSIVE backtrack(_, _, _, _)
\* the repetition gives characters back, down to lo, until the closing \b
\* matches: the position of the last character matched, 0 when none
backtrack(text, j, n, lo) ==
    IF n < lo THEN 0
    ELSE IF word_boundary(text, j + n - 1) THEN j + n - 1
    ELSE backtrack(text, j, n - 1, lo)

\* the match of a pattern that starts at text[i]: the position of its last
\* character, 0 when there is none. A pattern is a record: label is the
\* literal text in front, class{lo,hi} the repetition (hi < 0: no upper
\* limit), anchored tells whether the pattern opens with \b
match_at(rule, text, i) ==
    LET j == i + Len(rule.label)
        cap == IF rule.hi < 0 THEN Len(text) ELSE rule.hi
    IN  IF /\ j - 1 <= Len(text)
           /\ SubSeq(text, i, j - 1) = rule.label
           /\ (rule.anchored => word_boundary(text, i - 1))
        THEN backtrack(text, j, run_length(text, j, rule.class, cap), rule.lo)
        ELSE 0

RECURSIVE search_from(_, _, _)
\* the scan of re.search from text[i] on
search_from(rule, text, i) ==
    IF i > Len(text) THEN NoMatch
    ELSE LET e == match_at(rule, text, i)
         IN  IF e > 0 THEN [start |-> i, stop |-> e]
             ELSE search_from(rule, text, i + 1)

\* re.search(pattern, text)
re_search(rule, text) == search_from(rule, text, 1)

\* m.group(0)
group0(m, text) == SubSeq(text, m.start, m.stop)

\* m.group(1) of a pattern whose first group is the repetition
group1(rule, m, text) == SubSeq(text, m.start + Len(rule.label), m.stop)

\* ========================================================================
\* Part IV: csv_processor.py (operations)
\* ========================================================================
\* largest number of lines of the CSV file
MaxCsvLines == 2

\* r"(customerId=)([A-Z0-9]{6})\b"
RE_customerId ==
    [label |-> customerId \o <<"=">>, class |-> UpperOrDigit,
     lo |-> 6, hi |-> 6, anchored |-> FALSE]

\* r"(cardId=)([0-9]+)\b"
RE_cardId ==
    [label |-> cardId \o <<"=">>, class |-> Digits,
     lo |-> 1, hi |-> -1, anchored |-> FALSE]

\* r"(account=)([0-9]+)\b"
RE_account ==
    [label |-> account \o <<"=">>, class |-> Digits,
     lo |-> 1, hi |-> -1, anchored |-> FALSE]

\* r"(terminalId=)([0-9]+)\b"
RE_terminalId ==
    [label |-> terminalId \o <<"=">>, class |-> Digits,
     lo |-> 1, hi |-> -1, anchored |-> FALSE]

\* a mutant of extract_four_filters_from_line: a rule without a match is left
\* out and the other rules are still searched
extract_four_filters_skip_missing(line) ==
    LET m1 == re_search(RE_customerId, line)
        m2 == re_search(RE_cardId, line)
        m3 == re_search(RE_account, line)
        m4 == re_search(RE_terminalId, line)
    IN  (IF m1 = NoMatch THEN <<>> ELSE << <<"customerId", group0(m1, line)>> >>)
        \o (IF m2 = NoMatch THEN <<>> ELSE << <<"cardId", group0(m2, line)>> >>)
        \o (IF m3 = NoMatch THEN <<>> ELSE << <<"account", group0(m3, line)>> >>)
        \o (IF m4 = NoMatch THEN <<>> ELSE << <<"terminalId", group0(m4, line)>> >>)

\* extract_four_filters_from_line(line): the list of (name, value) pairs
extract_four_filters_from_line(line) ==
    LET m1 == re_search(RE_customerId, line)
        m2 == re_search(RE_cardId, line)
        m3 == re_search(RE_account, line)
        m4 == re_search(RE_terminalId, line)
    IN  IF m1 = NoMatch THEN <<>>
        ELSE IF m2 = NoMatch THEN <<>>
        ELSE IF m3 = NoMatch THEN <<>>
        ELSE IF m4 = NoMatch THEN <<>>
        ELSE << <<"customerId", group0(m1, line)>>,
                <<"cardId", group0(m2, line)>>,
                <<"account", group0(m3, line)>>,
                <<"terminalId", group0(m4, line)>> >>

\* the keys main() looks up in mapping
FILTER_KEYS == <<"customerId", "cardId", "account", "terminalId">>

\* k in mapping, for mapping = {k: v for k, v in pairs}
in_mapping(prs, k) == \E i \in 1..Len(prs) : prs[i][1] = k

\* mapping[k]: the value of the last pair named k
mapping_get(prs, k) ==
    prs[Max({ i \in 1..Len(prs) : prs[i][1] = k })][2]

\* rows_to_add after main() has handled the pairs of one line
add_row(rows, prs) ==
    IF prs = <<>> THEN rows
    ELSE IF \A n \in 1..Len(FILTER_KEYS) : in_mapping(prs, FILTER_KEYS[n])
         THEN Append(rows, [n \in 1..Len(FILTER_KEYS) |->
                               mapping_get(prs, FILTER_KEYS[n])])
         ELSE rows

\* pieces the lines of the CSV file are made of
CsvFragments ==
    { customerId \o <<"=", "A", "9", "W", "H", "9", "9", ";">>
          \o cardId \o <<"=", "4", "6", ";">>,
      customerId \o <<"=", "B", "2", "B", "2", "B", "2", " ">>,
      customerId \o <<"=", "A", "9", "W", "H", "9", ";">>,
      account \o <<"=", "9", "8", ";">> \o terminalId \o <<"=", "2", "2">>,
      account \o <<"=", "7", " ">>,
      cardId \o <<"=", "4", "x", ";">>,
      <<>> }

\* the lines: three pieces in a row
CsvLineChoices ==
    { a \o b \o c : a \in CsvFragments, b \in CsvFragments,
                    c \in CsvFragments }

\* extract_four_filters_from_line on every line of CsvLineChoices
four_filters_of ==
    [line \in CsvLineChoices |-> extract_four_filters_from_line(line)]

\* state when main() has opened a CSV file
CsvInit ==
    /\ csv_line = <<>>
    /\ pairs = <<>>
    /\ rows_to_add = <<>>
    /\ csv_i = 0
    /\ csv_pc = "reading"
    /\ SqlIdle
    /\ TraceIdle
    /\ NormIdle
    /\ JoinIdle
    /\ EqxIdle
    /\ MenuIdle
    /\ RerunIdle

\* one iteration of the loop over the lines, lines 351-363
CsvReadLine ==
    /\ csv_pc = "reading"
    /\ csv_i < MaxCsvLines
    /\ \E line \in CsvLineChoices :
          /\ csv_line' = line
          /\ pairs' = four_filters_of[line]
          /\ rows_to_add' = add_row(rows_to_add, pairs')
    /\ csv_i' = csv_i + 1
    /\ UNCHANGED csv_pc
    /\ UNCHANGED not_csv_vars

\* the file has no more lines
CsvEndOfFile ==
    /\ csv_pc = "reading"
    /\ csv_pc' = "done"
    /\ UNCHANGED <<csv_line, pairs, rows_to_add, csv_i>>
    /\ UNCHANGED not_csv_vars

\* ========================================================================
\* Part V: csv_processor_EQ.py (operations)
\* ========================================================================
\* largest number of lines of the CSV file
MaxEqLines == 1

\* r"\b([A-Z0-9]{6})\b"
RE_F0UCUS1 ==
    [label |-> <<>>, class |-> UpperOrDigit, lo |-> 6, hi |-> 6,
     anchored |-> TRUE]

\* r"\b([0-9]{8,11})\b"
RE_F0UIDPL ==
    [label |-> <<>>, class |-> Digits, lo |-> 8, hi |-> 11, anchored |-> TRUE]

\* r"\b([0-9]{18,22})\b"
RE_F0UEAN ==
    [label |-> <<>>, class |-> Digits, lo |-> 18, hi |-> 22, anchored |-> TRUE]

\* r"\b([A-Z0-9]{2,3})\b"
RE_F0USCRD ==
    [label |-> <<>>, class |-> UpperOrDigit, lo |-> 2, hi |-> 3,
     anchored |-> TRUE]

\* r"\b([A-Z0-9]{4,7})\b"
RE_F0USCON ==
    [label |-> <<>>, class |-> UpperOrDigit, lo |-> 4, hi |-> 7,
     anchored |-> TRUE]

\* r"\b([A-Z]{2,3})\b"
RE_SCACT ==
    [label |-> <<>>, class |-> Upper, lo |-> 2, hi |-> 3, anchored |-> TRUE]

\* extract_first_or_none(pattern, text)
extract_first_or_none(pattern, text) ==
    LET m == re_search(pattern, text)
    IN  IF m = NoMatch THEN None ELSE group1(pattern, m, text)

\* a mutant of extract_row_from_text: after the first field that is not
\* found the other fields are left empty
extract_row_until_missing(text) ==
    LET row == << extract_first_or_none(RE_F0UCUS1, text),
                  extract_first_or_none(RE_F0UIDPL, text),
                  extract_first_or_none(RE_F0UEAN, text),
                  extract_first_or_none(RE_F0USCRD, text),
                  extract_first_or_none(RE_F0USCON, text),
                  extract_first_or_none(RE_SCACT, text) >>
    IN  [n \in 1..6 |-> IF \E k \in 1..n : row[k] = None THEN None ELSE row[n]]

\* extract_row_from_text(text)
extract_row_from_text(text) ==
    << extract_first_or_none(RE_F0UCUS1, text),
       extract_first_or_none(RE_F0UIDPL, text),
       extract_first_or_none(RE_F0UEAN, text),
       extract_first_or_none(RE_F0USCRD, text),
       extract_first_or_none(RE_F0USCON, text),
       extract_first_or_none(RE_SCACT, text) >>

\* pieces the lines of the CSV file are made of
EqFragments ==
    { <<"A", "9", "W", "H", "9", "9">>,
      <<"1", "2", "3", "4", "5", "6", "7", "8">>,
      <<"1", "2", "3", "4", "5", "6", "7", "8", "9", "0",
        "1", "2", "3", "4", "5", "6", "7", "8">>,
      <<"A", "B">>,
      <<"_">>,
      <<";">>,
      <<>> }

\* the lines: three pieces in a row and the end of the line
EqLineChoices ==
    { a \o b \o c \o <<"\n">> : a \in EqFragments, b \in EqFragments,
                               c \in EqFragments }

\* extract_row_from_text on every line of EqLineChoices
row_of == [line \in EqLineChoices |-> extract_row_from_text(line)]

\* state when main() has opened a CSV file
EqxInit ==
    /\ eq_text = <<>>
    /\ rows_batch = <<>>
    /\ eqx_i = 0
    /\ eqx_pc = "reading"
    /\ SqlIdle
    /\ TraceIdle
    /\ NormIdle
    /\ JoinIdle
    /\ CsvIdle
    /\ MenuIdle
    /\ RerunIdle

\* one iteration of the loop over the lines, lines 155-163
EqxReadLine ==
    /\ eqx_pc = "reading"
    /\ eqx_i < MaxEqLines
    /\ \E line \in EqLineChoices :
          /\ eq_text' = line
          /\ rows_batch' = Append(rows_batch, row_of[line])
    /\ eqx_i' = eqx_i + 1
    /\ UNCHANGED eqx_pc
    /\ UNCHANGED not_eqx_vars

\* the file has no more lines
EqxEndOfFile ==
    /\ eqx_pc = "reading"
    /\ eqx_pc' = "done"
    /\ UNCHANGED <<eq_text, rows_batch, eqx_i>>
    /\ UNCHANGED not_eqx_vars

\* ========================================================================
\* Part VI: main_menu.py (operations)
\* ========================================================================
\* largest number of answers given at the prompt of the menu
MaxChoices == 3

\* what input() gives when the input has ended or the user interrupts
EOF == <<"EOF">>

\* the keys of the dict actions of main()
ACTION_KEYS == { <<"0">>, <<"1">>, <<"2">>, <<"3">>, <<"4">>, <<"5">> }

\* answers typed at the prompt
MenuAnswers ==
    { <<"0">>, <<"1">>, <<"2">>, <<"3">>, <<"4">>, <<"5">>,
      <<" ", "1", "\n">>, <<"9">>, <<"1", "0">>, <<>> }

\* state when main() has printed WELCOME
MenuInit ==
    /\ menu_pc = "prompt"
    /\ menu_choice = <<>>
    /\ chosen = <<>>
    /\ exit_status = ""
    /\ SqlIdle
    /\ TraceIdle
    /\ NormIdle
    /\ JoinIdle
    /\ CsvIdle
    /\ EqxIdle
    /\ RerunIdle

\* sys.exit(code): SystemExit is not caught by main() nor by the handler of
\* Exception at line 91, the program ends
sys_exit(code) ==
    /\ menu_pc' = "exited"
    /\ exit_status' = code

\* lines 79-86 up to the call of the step: read_choice() and the look-up of
\* the answer in actions
ReadChoice ==
    /\ menu_pc = "prompt"
    /\ Len(chosen) < MaxChoices
    /\ \E answer \in MenuAnswers \cup {EOF} :
          IF answer = EOF
          THEN /\ sys_exit("0")
               /\ chosen' = Append(chosen, EOF)
               /\ UNCHANGED menu_choice
          ELSE /\ menu_choice' = strip(answer)
               /\ chosen' = Append(chosen, strip(answer))
               /\ IF strip(answer) \notin ACTION_KEYS
                  THEN UNCHANGED <<menu_pc, exit_status>>
                  ELSE IF strip(answer) = <<"0">>
                  THEN sys_exit("0")
                  ELSE menu_pc' = "step" /\ UNCHANGED exit_status
    /\ UNCHANGED not_menu_vars

\* ask_inputs(): sys.exit(1) is called when the directory does not exist, the
\* file name is empty or the file is not found
ask_inputs_exits(directory_is_dir, filename_no_ext, source_is_file) ==
    \/ ~directory_is_dir
    \/ filename_no_ext = <<>>
    \/ ~source_is_file

\* lines 81-84: the step chosen runs. Step 1 starts with ask_inputs(); steps
\* 4 and 5 import a module that calls sys.exit(1) when openpyxl is missing;
\* a step that returns is followed by the menu
RunStep ==
    /\ menu_pc = "step"
    /\ \E directory_is_dir \in BOOLEAN, filename_no_ext \in { <<>>, <<"f">> },
          source_is_file \in BOOLEAN, openpyxl_found \in BOOLEAN :
          IF \/ /\ menu_choice = <<"1">>
                /\ ask_inputs_exits(directory_is_dir, filename_no_ext,
                                    source_is_file)
             \/ /\ menu_choice \in { <<"4">>, <<"5">> }
                /\ ~openpyxl_found
          THEN sys_exit("1")
          ELSE menu_pc' = "prompt" /\ UNCHANGED exit_status
    /\ UNCHANGED <<menu_choice, chosen>>
    /\ UNCHANGED not_menu_vars

vars == <<sql_vars, trace_vars, norm_vars, join_vars, rest_vars, rerun_vars>>

SqlNext == Prepare \/ EmitGroup \/ Finish

\* sql_generator.main on one source file
SqlSpec == SqlInit /\ [][SqlNext]_vars

PartNext == EmitGroup \/ Finish

\* the group loop of sql_generator.main on freely drawn inputs
PartSpec == PartInit /\ [][PartNext]_vars

TraceNext == UniqueTraceIds \/ SaveFirstProc \/ Chunk \/ WrapStep \/ WrapDone

\* traceid_processor.main on one source file
TraceSpec == TraceInit /\ [][TraceNext]_vars

DedupNext == DedupStep \/ DedupReturn

\* unique_trace_ids_with_progress on one file, line by line
DedupSpec == DedupInit /\ [][DedupNext]_vars

NormNext == NormalizeToken \/ NormalizeAgain

\* normalize_trace_id applied to a token and then to its own result
NormSpec == NormInit /\ [][NormNext]_vars

JoinNext ==
    ClassifyFiles \/ AskKey \/ BuildAndJoin \/ WriteOutput \/ SortJoined
        \/ JoinAgain

\* summator.main on a directory of two workbooks
JoinSpec == JoinInit /\ [][JoinNext]_vars

CsvNext == CsvReadLine \/ CsvEndOfFile

\* the loop of csv_processor.main over the lines of one file
CsvSpec == CsvInit /\ [][CsvNext]_vars

EqxNext == EqxReadLine \/ EqxEndOfFile

\* the loop of csv_processor_EQ.main over the lines of one file
EqxSpec == EqxInit /\ [][EqxNext]_vars

RerunNext == Prepare \/ EmitGroup \/ Finish \/ RunAgain

\* sql_generator.main called repeatedly on the same source file
RerunSpec == RerunInit /\ [][RerunNext]_vars

MenuNext == ReadChoice \/ RunStep

\* main_menu.main
MenuSpec == MenuInit /\ [][MenuNext]_vars

\* ========================================================================
\* Claims
\* ========================================================================
\* the next item to consider does not fit MAX_BODY even alone
Oversize ==
    /\ sql_pc = "loop"
    /\ used < Len(raw_items)
    /\ Len(raw_items[used + 1]) > MAX_BODY

\* s contains t
Contains(s, t) ==
    \E k \in 1..Len(s) : k + Len(t) - 1 <= Len(s) /\ SubSeq(s, k, k + Len(t) - 1) = t

RECURSIVE SplitFrom(_, _, _)
\* the pieces of cur \o s between occurrences of sep, scanning left to right
SplitFrom(s, sep, cur) ==
    IF s = <<>> THEN <<cur>>
    ELSE IF startswith(s, sep)
         THEN <<cur>> \o SplitFrom(SubSeq(s, Len(sep) + 1, Len(s)), sep, <<>>)
         ELSE SplitFrom(Tail(s), sep, Append(cur, Head(s)))

\* the items of a body: an empty body holds none
SplitBody(body) ==
    IF body = <<>> THEN <<>> ELSE SplitFrom(body, ItemSeparator, <<>>)

\* the body of a written file: the content without prefix, without postfix
\* and without the line terminator that ends a non-empty body
BodyOf(content) ==
    LET inner == SubSeq(content, Len(sql_query_pref) + 1,
                        Len(content) - Len(sql_query_post))
    IN  IF inner # <<>> /\ inner[Len(inner)] = "\n"
        THEN SubSeq(inner, 1, Len(inner) - 1) ELSE inner

\* C1: every written group file (prefix + body + postfix) is at most
\* MAX_TOTAL characters long.
C1_EveryFileWithinMaxTotal ==
    \A i \in 1..Len(out_files) : Len(out_files[i]) <= MAX_TOTAL

\* C2: when the item to place is longer than MAX_BODY, the step signals a
\* ValueTooLarge error and writes no file for it.
C2_OversizeSignalsValueTooLarge ==
    [][Oversize => (sql_pc' = "ValueTooLarge" /\ count_sql' = count_sql)]_vars

\* C3: the group loop terminates: every iteration of the outer loop moves
\* used towards total, so that used = total is reached after at most total
\* iterations (one iteration is a function of used alone: an iteration that
\* leaves used unchanged repeats for ever).
C3_EveryIterationConsumes ==
    [][(sql_pc = "loop" /\ count_sql' = count_sql + 1) => used' > used]_vars

\* C4: an item removed by the total-size check is the first item of the next
\* written group, and there is such a group.
C4_PoppedItemHeadsNextGroup ==
    \A i \in 1..Len(popped) :
        popped[i] # 0 =>
            /\ i < Len(groups) => (groups[i + 1] # <<>> /\ groups[i + 1][1] = popped[i])
            /\ sql_pc = "done" => i < Len(groups)

\* C5 as stated: for every written group,
\* len(prefix) + len(body) + len(suffix) <= MAX_TOTAL - RESERVED.
C5_WrapperAndBodyWithinMaxBody ==
    \A i \in 1..Len(out_files) :
        Len(sql_query_pref) + Len(BodyOf(out_files[i])) + Len(sql_query_post)
            <= MAX_BODY

\* C5 amended: for every written group the joined items alone (the body
\* without prefix, postfix and line terminator) are at most
\* MAX_TOTAL - RESERVED characters long.
C5_BodyWithinMaxBody ==
    \A i \in 1..Len(out_files) : Len(BodyOf(out_files[i])) <= MAX_BODY

\* C5 witness: a group of two or more items was closed because the next item
\* did not fit, and nothing was popped from it.
C5_Witness ==
    \E i \in 1..Len(groups) :
        /\ Len(groups[i]) >= 2
        /\ popped[i] = 0
        /\ i < Len(groups)

C7_RoundTripAnyItems ==
    \A i \in 1..Len(out_files) :
        SplitBody(BodyOf(out_files[i])) = ItemsOf(groups[i])

\* C7 amended: the round trip holds for every written group none of whose
\* items contains the separator ", ".
C7_RoundTripSeparatorFree ==
    \A i \in 1..Len(out_files) :
        (\A k \in 1..Len(groups[i]) : ~Contains(raw_items[groups[i][k]], ItemSeparator))
            => SplitBody(BodyOf(out_files[i])) = ItemsOf(groups[i])

\* C7 witness: a written group of two or more separator-free items, one of
\* them with a doubled quote.
C7_Witness ==
    \E i \in 1..Len(groups) :
        /\ Len(groups[i]) >= 2
        /\ \A k \in 1..Len(groups[i]) : ~Contains(raw_items[groups[i][k]], ItemSeparator)
        /\ \E k \in 1..Len(groups[i]) : raw_items[groups[i][k]] = <<"'", "'", "'", "'">>

\* chunk_first_proc_into_groups has returned
Chunked == trace_pc \in {"wrap", "done"}

\* number of objects a group file holds (one "match_phrase" line each)
ObjectsIn(lines) == Cardinality({ i \in 1..Len(lines) : lines[i] = ObjMatch })

\* C8: for n objects the group files written are ceil(n / objects_per_group)
\* in number, which is the value returned; every group but the last holds
\* exactly objects_per_group objects, the last between 1 and
\* objects_per_group; no object gives no group.
C8_CountBudgetGroups ==
    Chunked =>
        LET n == Len(first_proc) \div 5
            G == Len(group_files)
        IN  /\ G * objects_per_group >= n
            /\ G > 0 => (G - 1) * objects_per_group < n
            /\ groupsCount = G
            /\ \A i \in 1..(G - 1) : ObjectsIn(group_files[i]) = objects_per_group
            /\ G > 0 => ObjectsIn(group_files[G]) \in 1..objects_per_group

\* C8 witness: three groups were written, two full ones and a shorter last
\* one (the shape of 3500, 3500, 500).
C8_Witness ==
    /\ Chunked
    /\ Len(group_files) = 3
    /\ ObjectsIn(group_files[1]) = objects_per_group
    /\ ObjectsIn(group_files[2]) = objects_per_group
    /\ ObjectsIn(group_files[3]) < objects_per_group

\* the lines of a wrapped group file between PREFIX and SUFFIX
WrappedBody(f) == SubSeq(f, Len(PREFIX) + 1, Len(f) - Len(SUFFIX))

\* C9: when last_process_all_groups has run, every group file is PREFIX,
\* then its objects, then SUFFIX; the last object closes with "}" and every
\* other object with "},"; each file was wrapped exactly once.
C9_WrappedGroupsWellFormed ==
    (trace_pc = "done" /\ groupsCount > 0) =>
        \A i \in 1..Len(group_files) :
            LET f == group_files[i]
                body == WrappedBody(f)
                m == Len(body) \div 5
            IN  /\ Len(f) >= Len(PREFIX) + Len(SUFFIX) + 5
                /\ Len(body) = 5 * m
                /\ SubSeq(f, 1, Len(PREFIX)) = PREFIX
                /\ SubSeq(f, Len(f) - Len(SUFFIX) + 1, Len(f)) = SUFFIX
                /\ \A j \in 1..m :
                      /\ body[5 * j - 4] = ObjOpen
                      /\ body[5 * j - 3] = ObjMatch
                      /\ startswith(body[5 * j - 2], ObjIdHead)
                      /\ body[5 * j - 1] = ObjInnerClose
                      /\ body[5 * j] = IF j = m THEN ObjClose ELSE ObjCloseComma
                /\ wrapped[i] = 1

\* C9 witness: wrapping is over for two or more group files, one of them
\* holding two or more objects.
C9_Witness ==
    /\ trace_pc = "done"
    /\ Len(group_files) >= 2
    /\ wrap_i = Len(group_files)
    /\ \E i \in 1..Len(group_files) : ObjectsIn(group_files[i]) >= 2

RECURSIVE FirstOccurrences(_, _)
\* the non-empty normalized keys of lines that are not in have, each once,
\* in the order of their first occurrence
FirstOccurrences(lines, have) ==
    IF lines = <<>> THEN <<>>
    ELSE LET n == normalize_trace_id(Head(lines))
         IN  IF n = <<>> \/ n \in have
             THEN FirstOccurrences(Tail(lines), have)
             ELSE <<n>> \o FirstOccurrences(Tail(lines), have \cup {n})

\* C10: the tuple unique_trace_ids_with_progress returns lists the keys in
\* the order of their first occurrence in the input.
C10_FirstSeenOrder ==
    trace_pc = "returned" => unique_ids = FirstOccurrences(consumed, {})

\* the non-empty normalized forms of the lines
NonEmptyKeys(lines) ==
    { normalize_trace_id(lines[i]) : i \in 1..Len(lines) } \ { <<>> }

\* number of lines whose normalized form is not empty
NonEmptyCount(lines) ==
    Cardinality({ i \in 1..Len(lines) : normalize_trace_id(lines[i]) # <<>> })

\* C11: the returned tuple holds no key twice, and its keys are exactly the
\* non-empty normalized forms of the input lines.
C11_UniqueKeySet ==
    trace_pc = "returned" =>
        /\ \A i, j \in 1..Len(unique_ids) : i # j => unique_ids[i] # unique_ids[j]
        /\ Range(unique_ids) = NonEmptyKeys(consumed)

\* C11 witness: a tuple of two or more keys was returned for an input in
\* which a key came twice.
C11_Witness ==
    /\ trace_pc = "returned"
    /\ Len(unique_ids) >= 2
    /\ Len(consumed) > Len(unique_ids)
    /\ NonEmptyCount(consumed) > Len(unique_ids)

\* C12: after every prefix of the input, duplicates plus the number of keys
\* stored is the number of consumed lines with a non-empty normalized form;
\* the same holds of the returned pair.
C12_DuplicatesPlusKeys ==
    /\ duplicates + Cardinality(seen) = NonEmptyCount(consumed)
    /\ trace_pc = "returned" =>
           duplicates + Len(unique_ids) = NonEmptyCount(consumed)

\* C12 witness: the pair was returned with duplicates counted, after blank
\* lines and repeated keys were read.
C12_Witness ==
    /\ trace_pc = "returned"
    /\ duplicates >= 1
    /\ unique_ids # <<>>
    /\ NonEmptyCount(consumed) < Len(consumed)

\* C13: reading a line whose normalized form is empty changes neither seen
\* nor the output nor the duplicate counter.
C13_BlankLineChangesNothing ==
    [][ ( /\ Len(consumed') = Len(consumed) + 1
          /\ normalize_trace_id(consumed'[Len(consumed')]) = <<>> )
        => ( /\ seen' = seen
             /\ duplicates' = duplicates
             /\ unique_ids' = unique_ids ) ]_vars

\* C13 witness: the line read last was blank, with keys stored and
\* duplicates counted before it.
C13_Witness ==
    /\ Len(consumed) >= 3
    /\ normalize_trace_id(consumed[Len(consumed)]) = <<>>
    /\ seen # {}
    /\ duplicates >= 1

\* the positions of the characters of s that are not whitespace
KeptPositions(s) == { i \in 1..Len(s) : ~IsSpace(s[i]) }

\* the n-th smallest element of a set of numbers
NthOf(S, n) == CHOOSE i \in S : Cardinality({ k \in S : k <= i }) = n

\* C14: the normalized token holds no whitespace, it is the other characters
\* of the token in their order, and normalizing it again changes nothing.
C14_NormalizeIdempotent ==
    /\ norm_pc \in {"normalized", "again"} =>
           /\ \A i \in 1..Len(tid) : ~IsSpace(tid[i])
           /\ Len(tid) = Cardinality(KeptPositions(token))
           /\ \A n \in 1..Len(tid) : tid[n] = token[NthOf(KeptPositions(token), n)]
    /\ norm_pc = "again" => tid_norm = tid

\* C14 witness: a token with two separate runs of whitespace around letters
\* was normalized twice.
C14_Witness ==
    /\ norm_pc = "again"
    /\ Len(tid) = 2
    /\ Len(token) = 4
    /\ IsSpace(token[1])
    /\ IsSpace(token[3])

\* main() got as far as the join
Joined == join_pc \in {"joined", "written", "done"}

\* the keys of both dicts
AllKeys == DOMAIN eq_map \cup DOMAIN kib_map

\* where the key stands in the EQ block and in the Kibana block of a row
KeyPlace ==
    CASE key_name = "CUS" -> 1
      [] key_name = "Card" -> 2
      [] key_name = "Account" -> 3

\* C15: the join returns one row for every key of the left or the right
\* dict and no other row; the row of a key carries the key in the block of
\* each side that has it.
C15_JoinCompleteness ==
    Joined =>
        LET L == eq_width
        IN  /\ Len(joined_rows) = Cardinality(AllKeys)
            /\ Len(joined_keys) = Len(joined_rows)
            /\ Range(joined_keys) = AllKeys
            /\ \A i \in 1..Len(joined_rows) :
                  LET k == joined_keys[i]
                  IN  /\ k \in DOMAIN eq_map => joined_rows[i][KeyPlace] = k
                      /\ k \in DOMAIN kib_map =>
                             joined_rows[i][L + KeyPlace] = k

\* C15 witness: a join with a key on the left only, a key on the right only
\* and a key on both sides.
C15_Witness ==
    /\ join_pc = "joined"
    /\ DOMAIN eq_map \ DOMAIN kib_map # {}
    /\ DOMAIN kib_map \ DOMAIN eq_map # {}
    /\ DOMAIN eq_map \cap DOMAIN kib_map # {}

\* the dict holds, for every key of the key column, the projection of the
\* last row with that key
LastRowWins(d, rows, col_index, select_cols) ==
    /\ DOMAIN d = { rows[i][col_index] : i \in 1..Len(rows) }
    /\ \A k \in DOMAIN d :
          LET last == Max({ i \in 1..Len(rows) : rows[i][col_index] = k })
          IN  d[k] = [ j \in 1..Len(select_cols) |-> rows[last][select_cols[j]] ]

\* some key stands in two rows whose projections differ
RepeatedKey(rows, col_index, select_cols) ==
    \E i, j \in 1..Len(rows) :
        /\ i < j
        /\ rows[i][col_index] = rows[j][col_index]
        /\ project(rows[i], select_cols) # project(rows[j], select_cols)

\* C16: each dict maps a key to the projection of the last record with that
\* key, and main() gives up only before the key is asked for, never over a
\* repeated key.
C16_LastWriteWins ==
    /\ Joined =>
           /\ LastRowWins(eq_map, eq_loaded.rows, eq_idx[eq_key],
                          eq_select_of(eq_idx))
           /\ LastRowWins(kib_map, kib_loaded.rows, kib_idx[kib_key],
                          kib_select_of(kib_idx))
    /\ join_pc \in {"aborted", "crashed"} => key_name = ""

\* C16 witness: the join ended on an EQ workbook in which a key stands in
\* two records with different projections.
C16_Witness ==
    /\ join_pc = "done"
    /\ RepeatedKey(eq_loaded.rows, eq_idx[eq_key], eq_select_of(eq_idx))

\* C17: every joined row is the EQ projection of its key, or eq_width empty
\* values, followed by the Kibana projection of its key, or kib_width empty
\* values; it has eq_width + kib_width fields.
C17_RowShape ==
    Joined =>
        LET L == eq_width
            R == kib_width
        IN  \A i \in 1..Len(joined_rows) :
                LET k == joined_keys[i]
                    row == joined_rows[i]
                IN  /\ Len(row) = L + R
                    /\ SubSeq(row, 1, L) =
                           IF k \in DOMAIN eq_map THEN eq_map[k]
                           ELSE [ j \in 1..L |-> None ]
                    /\ SubSeq(row, L + 1, L + R) =
                           IF k \in DOMAIN kib_map THEN kib_map[k]
                           ELSE [ j \in 1..R |-> None ]

\* C17 witness: a join of six EQ columns with four Kibana columns in which
\* one key has no EQ record and another has no Kibana record.
C17_Witness ==
    /\ join_pc = "written"
    /\ eq_width = 6
    /\ kib_width = 4
    /\ DOMAIN eq_map \ DOMAIN kib_map # {}
    /\ DOMAIN kib_map \ DOMAIN eq_map # {}

\* C18: an EQ key and a Kibana key that are equal once whitespace is removed
\* share one joined row.
C18_WhitespaceKeysJoined ==
    Joined =>
        LET L == eq_width
            R == kib_width
        IN  \A kl \in DOMAIN eq_map, kr \in DOMAIN kib_map :
                ( /\ kl # None
                  /\ kr # None
                  /\ normalize_trace_id(kl) = normalize_trace_id(kr) )
                => \E i \in 1..Len(joined_rows) :
                       /\ SubSeq(joined_rows[i], 1, L) = eq_map[kl]
                       /\ SubSeq(joined_rows[i], L + 1, L + R) = kib_map[kr]

\* a workbook of the directory has neither all the Kibana columns nor all
\* the required EQ columns
FieldMissing ==
    \E i \in 1..Len(xlsx_files) :
        /\ ~(KIBANA_SET \subseteq HeaderNames(xlsx_files[i]))
        /\ ~(EQ_BASE_SET \subseteq HeaderNames(xlsx_files[i]))

\* C19: when a required column (so also the key column) is missing from a
\* workbook, main() prints a message and returns before a dict is built or
\* a row joined, and no result file is written.
C19_SchemaMismatchAborts ==
    FieldMissing =>
        /\ join_pc \in {"start", "aborted"}
        /\ join_pc = "aborted" => join_msg # ""
        /\ DOMAIN eq_map = {}
        /\ DOMAIN kib_map = {}
        /\ joined_rows = <<>>
        /\ out_file = out_before
        /\ join_runs = 0 => ~out_file.exists

\* C19 witness: main() gave up on a directory whose two workbooks hold
\* records and one of them lacks a required column.
C19_Witness ==
    /\ FieldMissing
    /\ join_pc = "aborted"
    /\ \A i \in 1..Len(xlsx_files) : xlsx_files[i].rows # <<>>
    /\ KIBANA_SET \subseteq HeaderNames(xlsx_files[1])

\* a cell is empty: None, or a text of whitespace only
EmptyCell(v) == v = None \/ \A i \in 1..Len(v) : IsSpace(v[i])

\* number of cells of the positions from..to of a row that are not empty
Filled(row, from, to) ==
    Cardinality({ j \in from..to : ~EmptyCell(row[j]) })

\* the group of a row, from the number of filled cells of its two blocks
ExpectedGroup(row, L, R) ==
    LET nl == Filled(row, 1, L)
        nr == Filled(row, L + 1, L + R)
    IN  IF nl = L /\ nr = R THEN 0
        ELSE IF nl = L /\ nr = 0 THEN 1
        ELSE IF nr = R /\ nl = 0 THEN 2
        ELSE 3

\* which cells of a row are empty
EmptyPattern(row) == [ j \in 1..Len(row) |-> EmptyCell(row[j]) ]

\* C20: sort_joined_file puts every row in the group given by the emptiness
\* of its cells: 0 both blocks full, 1 EQ block full and Kibana block empty,
\* 2 Kibana block full and EQ block empty, 3 otherwise; rows with the same
\* empty cells are in the same group.
C20_GroupByEmptiness ==
    join_pc = "done" =>
        LET L == eq_width
            R == kib_width
        IN  /\ DOMAIN grouped = 0..3
            /\ Len(grouped[0]) + Len(grouped[1]) + Len(grouped[2])
                   + Len(grouped[3]) = Len(joined_rows)
            /\ \A g \in 0..3 : \A i \in 1..Len(grouped[g]) :
                  ExpectedGroup(grouped[g][i], L, R) = g
            /\ \A g, h \in 0..3 :
                  \A i \in 1..Len(grouped[g]), j \in 1..Len(grouped[h]) :
                     EmptyPattern(grouped[g][i]) = EmptyPattern(grouped[h][j])
                         => g = h

\* C20 witness: a sorted result with rows in the groups 1, 2 and 3.
C20_Witness ==
    /\ join_pc = "done"
    /\ grouped[1] # <<>>
    /\ grouped[2] # <<>>
    /\ grouped[3] # <<>>

\* the place of a row in the list the join returned
PlaceOf(row) == CHOOSE i \in 1..Len(joined_rows) : joined_rows[i] = row

\* C21: the rows of the sorted file are in ascending group number, and rows
\* of one group stand in the order in which they were read.
C21_SortedByGroupStable ==
    join_pc = "done" =>
        LET L == eq_width
            R == kib_width
            out == out_file.rows
        IN  \A i, j \in 1..Len(out) :
                i < j =>
                    /\ ExpectedGroup(out[i], L, R) <= ExpectedGroup(out[j], L, R)
                    /\ ExpectedGroup(out[i], L, R) = ExpectedGroup(out[j], L, R)
                           => PlaceOf(out[i]) < PlaceOf(out[j])

\* C21 witness: the sort changed the order of the rows and one group holds
\* two rows or more.
C21_Witness ==
    /\ join_pc = "done"
    /\ out_file.rows # joined_rows
    /\ \E g \in 0..3 : Len(grouped[g]) >= 2

\* how often a row stands in a list of rows
Occurrences(row, rows) == Cardinality({ i \in 1..Len(rows) : rows[i] = row })

\* C22: sort_joined_file leaves the header row as it is, and the rows it
\* writes are the rows it read, each as often as before and unchanged.
C22_SortOnlyReorders ==
    [][ (join_pc = "written" /\ join_pc' = "done") =>
            /\ out_file'.headers = out_file.headers
            /\ out_file'.exists
            /\ Len(out_file'.rows) = Len(out_file.rows)
            /\ \A r \in Range(out_file.rows) \cup Range(out_file'.rows) :
                  Occurrences(r, out_file'.rows) = Occurrences(r, out_file.rows)
      ]_vars

\* C22 witness: a sorted file of three rows whose first row is not the row
\* the join returned first.
C22_Witness ==
    /\ join_pc = "done"
    /\ Len(out_file.rows) = 3
    /\ out_file.rows[1] # joined_rows[1]
    /\ Range(out_file.rows) = Range(joined_rows)

\* ------------------------------------------------------------------------
\* C23-C24: extraction of fields from a line
\* ------------------------------------------------------------------------
\* the places where a match of the pattern can start
Starts(rule, text) ==
    { a \in 1..Len(text) :
        /\ a + Len(rule.label) - 1 <= Len(text)
        /\ \A k \in 1..Len(rule.label) : text[a + k - 1] = rule.label[k]
        /\ rule.anchored => word_boundary(text, a - 1) }

\* the places where a match that starts at a can end
Ends(rule, text, a) ==
    LET j == a + Len(rule.label)
    IN  { b \in j..Len(text) :
            /\ b - j + 1 >= rule.lo
            /\ rule.hi >= 0 => b - j + 1 <= rule.hi
            /\ \A k \in j..b : text[k] \in rule.class
            /\ word_boundary(text, b) }

\* the pattern matches somewhere in the text
HasMatch(rule, text) == \E a \in Starts(rule, text) : Ends(rule, text, a) # {}

\* the first match: the leftmost start, and from there the longest match
FirstMatch(rule, text) ==
    LET a == CHOOSE x \in Starts(rule, text) :
                 /\ Ends(rule, text, x) # {}
                 /\ \A y \in Starts(rule, text) : Ends(rule, text, y) # {} => x <= y
    IN  SubSeq(text, a, Max(Ends(rule, text, a)))

\* the four rules of csv_processor in their order
FourRules == <<RE_customerId, RE_cardId, RE_account, RE_terminalId>>

\* C23: extract_four_filters_from_line returns nothing when one of the four
\* rules has no match in the line; otherwise it returns four pairs, named
\* customerId, cardId, account, terminalId in this order, each with the first
\* match of its rule; main() adds a row for the line in the second case only
C23_AllOrNothing ==
    [][ csv_i' = csv_i + 1 =>
          IF \E n \in 1..4 : ~HasMatch(FourRules[n], csv_line')
          THEN pairs' = <<>> /\ rows_to_add' = rows_to_add
          ELSE /\ pairs' = [n \in 1..4 |->
                              <<FILTER_KEYS[n], FirstMatch(FourRules[n], csv_line')>>]
               /\ rows_to_add' = Append(rows_to_add,
                                        [n \in 1..4 |-> FirstMatch(FourRules[n], csv_line')])
      ]_vars

\* a line with two customerId values gave four pairs, a line with three of
\* the four fields gave none
C23_Witness ==
    /\ csv_i = 2
    /\ Len(rows_to_add) = 1
    /\ pairs = <<>>
    /\ HasMatch(RE_customerId, csv_line) /\ HasMatch(RE_cardId, csv_line)
    /\ HasMatch(RE_account, csv_line) /\ ~HasMatch(RE_terminalId, csv_line)
    /\ rows_to_add[1][1] = customerId \o <<"=", "B", "2", "B", "2", "B", "2">>
    /\ rows_to_add[1][2] = cardId \o <<"=", "4", "6">>

\* the six rules of csv_processor_EQ in the order of the columns
SixRules ==
    <<RE_F0UCUS1, RE_F0UIDPL, RE_F0UEAN, RE_F0USCRD, RE_F0USCON, RE_SCACT>>

\* C24: every line read adds exactly one record of six positions; position n
\* holds the first match of rule n in the line, or None when rule n has no
\* match there, whatever the other rules find
C24_BestEffort ==
    [][ eqx_i' = eqx_i + 1 =>
          rows_batch' = Append(rows_batch,
                               [n \in 1..6 |->
                                  IF HasMatch(SixRules[n], eq_text')
                                  THEN FirstMatch(SixRules[n], eq_text')
                                  ELSE None])
      ]_vars

\* a line gave a record with filled positions after an empty one
C24_Witness ==
    /\ eqx_i = 1
    /\ Len(rows_batch) = 1
    /\ eq_text # <<"\n">>
    /\ rows_batch[1][1] = None
    /\ rows_batch[1][2] # None
    /\ rows_batch[1][3] = None
    /\ rows_batch[1][4] = <<"A", "B">>
    /\ rows_batch[1][6] = <<"A", "B">>

\* ------------------------------------------------------------------------
\* C25-C27: conservation of items and repeated runs
\* ------------------------------------------------------------------------
\* every item fits the body limit and the wrapper fits the reserve
FitsBudget ==
    /\ \A k \in 1..Len(raw_items) : Len(raw_items[k]) <= MAX_BODY
    /\ Len(sql_query_pref) + Len(sql_query_post) + 1 <= RESERVED

RECURSIVE ConcatAll(_)
\* the sequences of a sequence, one after the other
ConcatAll(ss) == IF ss = <<>> THEN <<>> ELSE Head(ss) \o ConcatAll(Tail(ss))

\* C25: when every item is at most MAX_TOTAL - RESERVED long and
\* len(prefix) + len(postfix) + 1 <= RESERVED, every written file holds at
\* least one item, the items of the files written so far, in the order of the
\* files, are the first used items of the input, no iteration passes without
\* taking an item, and the loop ends with all items written
C25_FittingItemsConserved ==
    (sql_pc \in {"loop", "done"} /\ FitsBudget) =>
        /\ \A i \in 1..Len(groups) :
              /\ groups[i] # <<>>
              /\ out_files[i] = sql_query_pref \o Join(ItemsOf(groups[i]))
                                    \o <<"\n">> \o sql_query_post
        /\ ItemsOf(ConcatAll(groups)) = SubSeq(raw_items, 1, used)
        /\ count_sql <= used
        /\ sql_pc = "done" => used = Len(raw_items)

\* three fitting items were written to two files
C25_Witness ==
    /\ sql_pc = "done"
    /\ FitsBudget
    /\ Len(raw_items) = 3
    /\ Len(groups) = 2
    /\ Len(groups[1]) = 2

\* the "traceId" lines among lines, in order
IdLines(lines) ==
    LET is_id(l) == startswith(l, ObjIdHead)
    IN  SelectSeq(lines, is_id)

\* C26: the group files written by chunk_first_proc_into_groups, one after the
\* other in the order of their numbers, are the lines of the first-proc file;
\* the trace ids of the group files are, also after the files were wrapped,
\* the unique trace ids in their order, each in one place only
C26_GroupsHoldFirstProc ==
    Chunked =>
        LET all == ConcatAll(group_files)
        IN  /\ wrap_i = 0 => all = first_proc
            /\ IdLines(all) = [k \in 1..Len(unique_ids) |->
                                  ObjIdHead \o unique_ids[k] \o ObjIdTail]
            /\ \A i, j \in 1..Len(IdLines(all)) :
                  IdLines(all)[i] = IdLines(all)[j] => i = j

\* three or more trace ids were written to two or more group files
C26_Witness ==
    /\ trace_pc = "wrap"
    /\ wrap_i = 0
    /\ Len(unique_ids) >= 3
    /\ Len(group_files) >= 2
    /\ ObjectsIn(group_files[2]) >= 1

\* C27: once a run has written the backup file, the backup file is the source
\* file as it was before the first run, and the items a later run partitions
\* are the items of the run before
C27_BackupKeepsOriginal ==
    sql_pc \in {"loop", "done"} =>
        /\ backup_file = text_before
        /\ sql_runs > 0 => raw_items = items_before

\* ------------------------------------------------------------------------
\* C28-C29: summator run again, and empty keys
\* ------------------------------------------------------------------------
\* C28: a run of summator.main on a directory in which an earlier run has
\* left its output file finds three workbooks, gives up at the check for two
\* files before any other step, and leaves the output file as it was
C28_SecondRunRejected ==
    join_runs > 0 =>
        /\ Len(xlsx_files) = 3
        /\ join_pc \in {"start", "aborted"}
        /\ join_pc = "aborted" => join_msg = "not two files"
        /\ out_file = out_before
        /\ roles = EmptyDict /\ key_name = "" /\ joined_rows = <<>>

\* the second run has given up and the output of the first run, three rows
\* in another order than they were joined in, is still there
C28_Witness ==
    /\ join_runs = 1
    /\ join_pc = "aborted"
    /\ out_file.exists
    /\ Len(out_file.rows) = 3
    /\ xlsx_files[2].headers = out_file.headers

\* the rows whose cell in the key column is empty
NoneKeyRows(rows, col_index) ==
    { i \in 1..Len(rows) : rows[i][col_index] = None }

\* the dict has an entry under None exactly when a row has an empty key, and
\* the entry is the projection of the last such row
NoneKeyCollapsed(d, rows, col_index, select_cols) ==
    LET E == NoneKeyRows(rows, col_index)
    IN  /\ (None \in DOMAIN d) = (E # {})
        /\ E # {} => d[None] = project(rows[Max(E)], select_cols)

\* C29: the records of one side whose key cell is None give one dict entry
\* under None, that of the last such record; when both sides have such an
\* entry the join returns one row for None, the EQ entry followed by the
\* Kibana entry
C29_EmptyKeysJoined ==
    Joined =>
        LET er == eq_loaded.rows
            kr == kib_loaded.rows
            ei == eq_idx
            ki == kib_idx
            places == { i \in 1..Len(joined_keys) : joined_keys[i] = None }
        IN  /\ NoneKeyCollapsed(eq_map, er, ei[eq_key], eq_select_of(ei))
            /\ NoneKeyCollapsed(kib_map, kr, ki[kib_key], kib_select_of(ki))
            /\ (None \in DOMAIN eq_map /\ None \in DOMAIN kib_map) =>
                  /\ Cardinality(places) = 1
                  /\ \A i \in places :
                        joined_rows[i] = eq_map[None] \o kib_map[None]

\* two EQ records with an empty key and different other cells, and a Kibana
\* record with an empty key, were joined
C29_Witness ==
    /\ join_pc = "joined"
    /\ Cardinality(NoneKeyRows(eq_loaded.rows, eq_idx[eq_key])) = 2
    /\ eq_loaded.rows[1] # eq_loaded.rows[2]
    /\ NoneKeyRows(kib_loaded.rows, kib_idx[kib_key]) # {}
    /\ Len(joined_rows) = 1

\* ------------------------------------------------------------------------
\* C30: the menu loop
\* ------------------------------------------------------------------------
\* C30: a step that was chosen is followed by the prompt of the menu whatever
\* happens in it; the program ends only at the prompt, on the answer 0 or on
\* the end of the input; an answer that is no key of actions changes nothing
\* and is followed by the prompt
C30_StepsReturnToMenu ==
    [][ /\ menu_pc = "step" => menu_pc' = "prompt"
        /\ menu_pc' = "exited" =>
              /\ menu_pc = "prompt"
              /\ chosen'[Len(chosen')] \in { <<"0">>, EOF }
        /\ (menu_pc = "prompt" /\ chosen'[Len(chosen')] \notin ACTION_KEYS \cup {EOF}) =>
              /\ menu_pc' = "prompt"
              /\ exit_status' = exit_status
      ]_vars

====
